---- MODULE Spec2Model ----
(***************************************************************************)
(* A model of the unkey client library: the route compiler                 *)
(* (src/routes.rs), the tri-state field UndefinedOr<T> and its             *)
(* serialization (src/models/undefined.rs), the request builders           *)
(* (src/models/keys.rs, src/models/apis.rs), the reading of responses      *)
(* (src/lib.rs, src/models/http.rs) and the client with its http service   *)
(* (src/client.rs, src/services), alone and with several operations in     *)
(* flight on one client.                                                   *)
(*                                                                         *)
(* Paths, query strings, header values and the texts of responses are      *)
(* sequences of one-character strings, so that the search for the          *)
(* placeholder token "{}", the reading of JSON and the joining of urls    *)
(* are computed character by character.  The JSON texts of requests are    *)
(* TLA+ strings built by concatenation.  The messages of serde are given   *)
(* without their position, and with apostrophes for their backticks.       *)
(***************************************************************************)
EXTENDS Integers, Sequences, FiniteSets, TLC

VARIABLES
    route,      \* the static Route the compiled routes are made from
    compiled,   \* the live CompiledRoute values, by the caller's binding
    uriLog,     \* per binding: the values given to uri_insert since compile
    queryLog,   \* per binding: the pairs given to query_insert since compile
    ret,        \* what the most recent call returned
    t,          \* a TestStruct: four tri-state fields a, b, c, d
    conv,       \* the most recent conversion into a tri-state value
    out,        \* the most recent serialization call and its result
    req,        \* the request under construction
    reqArg,     \* the id given to the request's new
    lastSet,    \* per field: how often its setter was called, and the last argument
    proc,       \* "running", or how the work on the request ended
    body,       \* the request written as the JSON body of a call
    resp,       \* the HttpResult a call of fetch gave
    expect,     \* the type T the response is to be read as
    parsed,     \* the most recent call on the HttpResult and what it returned
    client,     \* the Client: the base url and the headers of its HttpService
    rootKey,    \* the key given to the constructor or to the most recent set_key
    call,       \* the most recent call on the client and what it did
    nCalls,     \* the calls made on the client
    cproc,      \* "running", or "exited" when the constructor ended the process
    tasks       \* per task: the operation it has in flight and how far it is

routeVars == <<route, compiled, uriLog, queryLog, ret>>

serVars == <<t, conv, out>>

reqVars == <<req, reqArg, lastSet, proc, body>>

respVars == <<resp, expect, parsed>>

\* What the calls on routes, on tri-state values, on request builders, on
\* responses, on the client and of the tasks leave alone.
clientVars == <<client, rootKey, call, nCalls, cproc>>

concVars == <<tasks>>

exceptRoute == <<serVars, reqVars, respVars, clientVars, concVars>>

exceptSer == <<routeVars, reqVars, respVars, clientVars, concVars>>

exceptReq == <<routeVars, serVars, respVars, clientVars, concVars>>

exceptResp == <<routeVars, serVars, reqVars, clientVars, concVars>>

exceptClient == <<routeVars, serVars, reqVars, respVars, concVars>>

exceptConc == <<routeVars, serVars, reqVars, respVars, clientVars>>

vars == <<routeVars, serVars, reqVars, respVars, clientVars, concVars>>

\* ------------------------------------------------------------------------
\* Bounds
\* ------------------------------------------------------------------------

\* The most mutator calls (uri_insert, query_insert) on all live compiled
\* routes together.
MaxCalls == 3

\* The most setter calls on one request.
MaxSetterCalls == 3

\* The most calls on one client after its construction.
MaxClientCalls == 3

\* The most operations in flight at once on one client.
MaxTasks == 2

\* ------------------------------------------------------------------------
\* Strings of the route table
\* ------------------------------------------------------------------------

Placeholder == <<"{", "}">>

KeysUri == <<"/", "k", "e", "y", "s">>

KeysIdUri == <<"/", "k", "e", "y", "s", "/", "{", "}">>

ApisIdKeysUri ==
    <<"/", "a", "p", "i", "s", "/", "{", "}", "/", "k", "e", "y", "s">>

\* The template of the uri_insert documentation example.
ApisIdKeysIdUri ==
    <<"/", "a", "p", "i", "s", "/", "{", "}", "/", "k", "e", "y", "s", "/", "{", "}">>

\* Route::new(method, uri)
RouteNew(method, uri) == [method |-> method, uri |-> uri]

CREATE_KEY == RouteNew("POST", KeysUri)

DELETE_KEY == RouteNew("DELETE", KeysIdUri)

UPDATE_KEY == RouteNew("PUT", KeysIdUri)

LIST_KEYS == RouteNew("GET", ApisIdKeysUri)

VERIFY_KEY == RouteNew("POST", KeysUri \o <<"/", "v", "e", "r", "i", "f", "y">>)

GET_API == RouteNew("GET", <<"/", "a", "p", "i", "s", "/", "{", "}">>)

\* The routes that services/keys.rs names and routes.rs does not hold, as
\* the table of operations gives them: DELETE /keys/{id}, GET /keys/{id} and
\* POST /keys/{id}/remaining.
REVOKE_KEY == RouteNew("DELETE", KeysIdUri)

GET_KEY == RouteNew("GET", KeysIdUri)

UPDATE_REMAINING ==
    RouteNew("POST", KeysIdUri \o <<"/", "r", "e", "m", "a", "i", "n", "i", "n", "g">>)

\* The route of the documentation example of uri_insert.
DocRoute == RouteNew("GET", ApisIdKeysIdUri)

Routes == {CREATE_KEY, DELETE_KEY, UPDATE_KEY, LIST_KEYS, DocRoute}

\* The caller's bindings that hold a compiled route (let mut c = r.compile()).
Bindings == {1, 2}

\* Values a caller hands to uri_insert: ids, a value that itself is the
\* placeholder token, and a value of braces that does not hold the token.
UriValues == {<<"5">>, <<"1">>, <<"{", "}">>, <<"}", "{">>}

\* Names and values a caller hands to query_insert; the empty string is one.
QueryNames == {<<>>, <<"a">>}

QueryValues == {<<>>, <<"1">>}

\* ------------------------------------------------------------------------
\* The route compiler
\* ------------------------------------------------------------------------

\* The index of the first occurrence of "{}" in s, 0 when there is none
\* (str::find as used by str::replacen).
FindPlaceholder(s) ==
    LET hits == {i \in 1..(Len(s) - 1) : s[i] = "{" /\ s[i + 1] = "}"}
    IN  IF hits = {} THEN 0 ELSE CHOOSE i \in hits : \A j \in hits : i <= j

\* A replacen that replaces the last occurrence instead of the first.
ReplacenLast(s, v) ==
    LET hits == {i \in 1..(Len(s) - 1) : s[i] = "{" /\ s[i + 1] = "}"}
        i == IF hits = {} THEN 0 ELSE CHOOSE k \in hits : \A j \in hits : j <= k
    IN  IF i = 0 THEN s
        ELSE SubSeq(s, 1, i - 1) \o v \o SubSeq(s, i + 2, Len(s))

\* A replacen that appends the value when no placeholder is left.
ReplacenOrAppend(s, v) ==
    LET i == FindPlaceholder(s)
    IN  IF i = 0 THEN s \o v
        ELSE SubSeq(s, 1, i - 1) \o v \o SubSeq(s, i + 2, Len(s))

\* self.uri.replacen("{}", &param, 1)
Replacen(s, v) ==
    LET i == FindPlaceholder(s)
    IN  IF i = 0 THEN s
        ELSE SubSeq(s, 1, i - 1) \o v \o SubSeq(s, i + 2, Len(s))

\* A CompiledRoute::new that hands out the state of a route compiled before.
CompiledRouteShared(r) ==
    IF DOMAIN compiled = {} THEN [method |-> r.method, params |-> <<>>, uri |-> r.uri]
    ELSE compiled[CHOOSE b \in DOMAIN compiled : TRUE]

\* CompiledRoute::new(route)
CompiledRouteNew(r) ==
    [method |-> r.method, params |-> <<>>, uri |-> r.uri]

\* A uri_insert that empties the query parameters.
UriInsertClearsQuery(c, param) ==
    [c EXCEPT !.uri = Replacen(c.uri, param), !.params = <<>>]

\* CompiledRoute::uri_insert(param)
UriInsertRoute(c, param) == [c EXCEPT !.uri = Replacen(c.uri, param)]

\* A query_insert that keeps one pair per name (a map instead of a list).
QueryInsertDedup(c, name, value) ==
    IF \E i \in 1..Len(c.params) : c.params[i][1] = name
    THEN [c EXCEPT !.params =
            [i \in 1..Len(c.params) |->
                IF c.params[i][1] = name THEN <<name, value>> ELSE c.params[i]]]
    ELSE [c EXCEPT !.params = Append(c.params, <<name, value>>)]

\* CompiledRoute::query_insert(name, value)
QueryInsertRoute(c, name, value) ==
    [c EXCEPT !.params = Append(c.params, <<name, value>>)]

\* [String]::join(sep)
RECURSIVE Join(_, _)
Join(strs, sep) ==
    IF Len(strs) = 0 THEN <<>>
    ELSE IF Len(strs) = 1 THEN strs[1]
    ELSE strs[1] \o sep \o Join(Tail(strs), sep)

\* CompiledRoute::build_query()
BuildQueryRoute(c) ==
    LET parts == [i \in 1..Len(c.params) |->
                    c.params[i][1] \o <<"=">> \o c.params[i][2]]
        query == Join(parts, <<"&">>)
    IN  IF query # <<>> THEN <<"?">> \o query ELSE query

\* ------------------------------------------------------------------------
\* Calls on the route compiler
\* ------------------------------------------------------------------------

RECURSIVE SumLen(_, _)
SumLen(f, S) ==
    IF S = {} THEN 0
    ELSE LET b == CHOOSE x \in S : TRUE
         IN  Len(f[b]) + SumLen(f, S \ {b})

\* The mutator calls made so far on the live compiled routes.
Calls == SumLen(uriLog, DOMAIN uriLog) + SumLen(queryLog, DOMAIN queryLog)

Bind(f, b, v) == [x \in (DOMAIN f) \cup {b} |-> IF x = b THEN v ELSE f[x]]

NoRet == [kind |-> "none", binding |-> 0, value |-> <<>>]

\* let mut c = route.compile(): Route::compile calls CompiledRoute::new.
Compile(b) ==
    /\ compiled' = Bind(compiled, b, CompiledRouteNew(route))
    /\ uriLog' = Bind(uriLog, b, <<>>)
    /\ queryLog' = Bind(queryLog, b, <<>>)
    /\ ret' = [kind |-> "compiled", binding |-> b, value |-> <<>>]
    /\ UNCHANGED <<route, exceptRoute>>

\* c.uri_insert(param)
UriInsert(b, param) ==
    /\ b \in DOMAIN compiled
    /\ Calls < MaxCalls
    /\ compiled' = [compiled EXCEPT ![b] = UriInsertRoute(@, param)]
    /\ uriLog' = [uriLog EXCEPT ![b] = Append(@, param)]
    /\ ret' = [kind |-> "self", binding |-> b, value |-> <<>>]
    /\ UNCHANGED <<route, queryLog, exceptRoute>>

\* c.query_insert(name, value)
QueryInsert(b, name, value) ==
    /\ b \in DOMAIN compiled
    /\ Calls < MaxCalls
    /\ compiled' = [compiled EXCEPT ![b] = QueryInsertRoute(@, name, value)]
    /\ queryLog' = [queryLog EXCEPT ![b] = Append(@, <<name, value>>)]
    /\ ret' = [kind |-> "self", binding |-> b, value |-> <<>>]
    /\ UNCHANGED <<route, uriLog, exceptRoute>>

\* c.build_query()
BuildQuery(b) ==
    /\ b \in DOMAIN compiled
    /\ ret' = [kind |-> "query", binding |-> b, value |-> BuildQueryRoute(compiled[b])]
    /\ UNCHANGED <<route, compiled, uriLog, queryLog, exceptRoute>>

\* ------------------------------------------------------------------------
\* The tri-state field UndefinedOr<T>
\* ------------------------------------------------------------------------

\* UndefinedOr::Value(x), UndefinedOr::Null, UndefinedOr::Undefined
Value(x) == [tag |-> "Value", v |-> x]

Null == [tag |-> "Null"]

Undefined == [tag |-> "Undefined"]

\* Option::Some(x), Option::None
Some(x) == [some |-> TRUE, v |-> x]

None == [some |-> FALSE]

\* An is_undefined that matches Null instead.
IsUndefinedWrong(u) == u.tag = "Null"

\* UndefinedOr::is_undefined
IsUndefined(u) == u.tag = "Undefined"

\* A default that is Null.
UndefinedOrDefaultNull == Null

\* impl Default for UndefinedOr<T>
UndefinedOrDefault == Undefined

\* A conversion that maps the empty optional to Undefined.
FromOptionUndefined(o) == IF o.some THEN Value(o.v) ELSE Undefined

\* impl From<Option<T>> for UndefinedOr<T>
FromOption(o) == IF o.some THEN Value(o.v) ELSE Null

\* ------------------------------------------------------------------------
\* JSON serialization
\* ------------------------------------------------------------------------

Ok(text) == [ok |-> TRUE, text |-> text]

Err(msg) == [ok |-> FALSE, text |-> msg]

Digit(d) ==
    CASE d = 0 -> "0" [] d = 1 -> "1" [] d = 2 -> "2" [] d = 3 -> "3"
      [] d = 4 -> "4" [] d = 5 -> "5" [] d = 6 -> "6" [] d = 7 -> "7"
      [] d = 8 -> "8" [] d = 9 -> "9"

\* The decimal digits of an unsigned integer (serialize_u32, serialize_u64).
RECURSIVE SerializeUnsigned(_)
SerializeUnsigned(n) ==
    IF n < 10 THEN Digit(n)
    ELSE SerializeUnsigned(n \div 10) \o Digit(n % 10)

\* A serializer that writes null for Undefined.
SerializeUndefinedAsNull(u) ==
    CASE u.tag = "Null" -> Ok("null")
      [] u.tag = "Value" -> Ok(SerializeUnsigned(u.v))
      [] u.tag = "Undefined" -> Ok("null")

\* impl Serialize for UndefinedOr<T>, T an unsigned integer
SerializeUndefinedOr(u) ==
    CASE u.tag = "Null" -> Ok("null")
      [] u.tag = "Value" -> Ok(SerializeUnsigned(u.v))
      [] u.tag = "Undefined" -> Err("Undefined should never be serialized.")

\* The fields of TestStruct in declaration order.
TestFields == <<"a", "b", "c", "d">>

\* The fields of a derived struct serializer from the i-th on: a field whose
\* skip_serializing_if holds is left out; the first field written follows
\* "{", the others a comma; an error of a field's serializer ends the call.
RECURSIVE SerializeFieldsFrom(_, _, _, _)
SerializeFieldsFrom(s, i, state, text) ==
    IF i > Len(TestFields)
    THEN Ok(IF state = "Empty" THEN text ELSE text \o "}")
    ELSE IF IsUndefined(s[TestFields[i]])
    THEN SerializeFieldsFrom(s, i + 1, state, text)
    ELSE LET r == SerializeUndefinedOr(s[TestFields[i]])
             sep == IF state = "First" THEN "" ELSE ","
         IN  IF ~r.ok THEN r
             ELSE SerializeFieldsFrom(s, i + 1, "Rest",
                    text \o sep \o "\"" \o TestFields[i] \o "\":" \o r.text)

\* serde_json::to_string(&t) of a TestStruct (derive(Serialize), every field
\* with skip_serializing_if = "UndefinedOr::is_undefined").
SerializeTestStruct(s) ==
    LET len == Cardinality({i \in 1..Len(TestFields) : ~IsUndefined(s[TestFields[i]])})
    IN  IF len = 0 THEN SerializeFieldsFrom(s, 1, "Empty", "{}")
        ELSE SerializeFieldsFrom(s, 1, "First", "{")

\* The u32 values of the tests.
U32Values == {0, 69, 420}

TriStates == {Undefined, Null} \cup {Value(x) : x \in U32Values}

Options == {None} \cup {Some(x) : x \in U32Values}

NoConv == [call |-> "none", arg |-> None, to |-> Undefined]

NoOut == [call |-> "none", name |-> "", res |-> Ok("")]

\* Nothing converted or serialized yet.
SerIdle ==
    /\ t = [f \in {"a", "b", "c", "d"} |-> UndefinedOrDefault]
    /\ conv = NoConv
    /\ out = NoOut

\* ------------------------------------------------------------------------
\* The request builders
\* ------------------------------------------------------------------------

\* The width of usize in the model; the code runs with 32 or 64.
UsizeBits == 16

UsizeMax == 2 ^ UsizeBits - 1

UpdateFields ==
    <<"owner_id", "name", "meta", "expires", "remaining", "ratelimit", "refill">>

CreateFields ==
    <<"owner_id", "byte_length", "prefix", "name", "meta", "expires",
      "remaining", "ratelimit", "refill">>

Range(s) == {s[i] : i \in 1..Len(s)}

\* The optional fields of ListKeysRequest.
ListFields == <<"owner_id", "limit", "cursor", "revalidate_cache">>

AllFields == Range(UpdateFields) \cup Range(CreateFields) \cup Range(ListFields)

\* UpdateKeyRequest::new(key_id): the key id, and Default::default() for
\* every other field.
UpdateKeyRequestNew(key_id) ==
    [kind |-> "update", key_id |-> key_id,
     owner_id |-> UndefinedOrDefault, name |-> UndefinedOrDefault,
     meta |-> UndefinedOrDefault, expires |-> UndefinedOrDefault,
     remaining |-> UndefinedOrDefault, ratelimit |-> UndefinedOrDefault,
     refill |-> UndefinedOrDefault]

\* CreateKeyRequest::new(api_id)
CreateKeyRequestNew(api_id) ==
    [kind |-> "create", api_id |-> api_id,
     owner_id |-> Undefined, byte_length |-> Undefined, prefix |-> Undefined,
     name |-> Undefined, meta |-> Undefined, expires |-> Undefined,
     remaining |-> Undefined, ratelimit |-> Undefined, refill |-> Undefined]

\* UpdateKeyRequest::set_owner_id(owner_id: Option<&str>)
UpdateSetOwnerId(r, o) ==
    [r EXCEPT !.owner_id = IF o.some THEN FromOption(Some(o.v)) ELSE FromOption(None)]

\* UpdateKeyRequest::set_name(name: Option<&str>)
UpdateSetName(r, o) ==
    [r EXCEPT !.name = IF o.some THEN FromOption(Some(o.v)) ELSE FromOption(None)]

\* UpdateKeyRequest::set_meta(meta: Option<Value>)
UpdateSetMeta(r, o) ==
    [r EXCEPT !.meta = IF o.some THEN FromOption(Some(o.v)) ELSE FromOption(None)]

\* UpdateKeyRequest::set_expires(expires: Option<usize>)
UpdateSetExpires(r, o) == [r EXCEPT !.expires = FromOption(o)]

\* UpdateKeyRequest::set_remaining(remaining: Option<usize>)
UpdateSetRemaining(r, o) == [r EXCEPT !.remaining = FromOption(o)]

\* UpdateKeyRequest::set_ratelimit(ratelimit: Option<Ratelimit>)
UpdateSetRatelimit(r, o) == [r EXCEPT !.ratelimit = FromOption(o)]

\* UpdateKeyRequest::set_refill(refill: Option<Refill>)
UpdateSetRefill(r, o) == [r EXCEPT !.refill = FromOption(o)]

\* An update setter that keeps a value once it is set (first write wins).
UpdateSetFirstWins(f, r, o) ==
    IF r[f].tag = "Value" THEN r ELSE [r EXCEPT ![f] = FromOption(o)]

\* The update setter of field f.
UpdateSet(f, r, o) ==
    CASE f = "owner_id" -> UpdateSetOwnerId(r, o)
      [] f = "name" -> UpdateSetName(r, o)
      [] f = "meta" -> UpdateSetMeta(r, o)
      [] f = "expires" -> UpdateSetExpires(r, o)
      [] f = "remaining" -> UpdateSetRemaining(r, o)
      [] f = "ratelimit" -> UpdateSetRatelimit(r, o)
      [] f = "refill" -> UpdateSetRefill(r, o)

\* CreateKeyRequest::set_owner_id(owner_id)
CreateSetOwnerId(r, x) == [r EXCEPT !.owner_id = Value(x)]

\* CreateKeyRequest::set_byte_length(byte_length)
CreateSetByteLength(r, x) == [r EXCEPT !.byte_length = Value(x)]

\* CreateKeyRequest::set_prefix(prefix)
CreateSetPrefix(r, x) == [r EXCEPT !.prefix = Value(x)]

\* CreateKeyRequest::set_name(name)
CreateSetName(r, x) == [r EXCEPT !.name = Value(x)]

\* CreateKeyRequest::set_meta(meta)
CreateSetMeta(r, x) == [r EXCEPT !.meta = Value(x)]

\* CreateKeyRequest::set_remaining(remaining)
CreateSetRemaining(r, x) == [r EXCEPT !.remaining = Value(x)]

\* CreateKeyRequest::set_ratelimit(ratelimit)
CreateSetRatelimit(r, x) == [r EXCEPT !.ratelimit = Value(x)]

\* CreateKeyRequest::set_refill(refill)
CreateSetRefill(r, x) == [r EXCEPT !.refill = Value(x)]

\* A create setter that builds on a fresh request, dropping what the
\* other setters stored.
CreateSetOnFresh(f, r, x) == [CreateKeyRequestNew(r.api_id) EXCEPT ![f] = Value(x)]

\* The create setter of field f; set_expires, which reads the clock, is
\* CreateSetExpires.
CreateSet(f, r, x) ==
    CASE f = "owner_id" -> CreateSetOwnerId(r, x)
      [] f = "byte_length" -> CreateSetByteLength(r, x)
      [] f = "prefix" -> CreateSetPrefix(r, x)
      [] f = "name" -> CreateSetName(r, x)
      [] f = "meta" -> CreateSetMeta(r, x)
      [] f = "remaining" -> CreateSetRemaining(r, x)
      [] f = "ratelimit" -> CreateSetRatelimit(r, x)
      [] f = "refill" -> CreateSetRefill(r, x)

\* n as usize: the low UsizeBits bits of n.
AsUsize(n) == n % (2 ^ UsizeBits)

\* CreateKeyRequest::set_expires(expires), the clock having read now
\* milliseconds since the epoch: duration.as_millis() as usize + expires.
\* A sum beyond usize panics in a build with overflow checks and wraps in
\* one without.
CreateSetExpires(r, expires, now, overflowChecks) ==
    LET sum == AsUsize(now) + expires
    IN  IF sum > UsizeMax /\ overflowChecks
        THEN [panicked |-> TRUE, req |-> r]
        ELSE [panicked |-> FALSE, req |-> [r EXCEPT !.expires = Value(AsUsize(sum))]]

\* Ratelimit::new(ratelimit_type, refill_rate, refill_interval, limit)
RatelimitNew(ratelimit_type, refill_rate, refill_interval, limit) ==
    [ratelimit_type |-> ratelimit_type, refill_rate |-> refill_rate,
     refill_interval |-> refill_interval, limit |-> limit]

\* Refill::new(amount, interval)
RefillNew(amount, interval) ==
    [amount |-> amount, interval |-> interval, last_refilled_at |-> None]

\* ListKeysRequest::new(api_id)
ListKeysRequestNew(api_id) ==
    [kind |-> "list", api_id |-> api_id, owner_id |-> None, limit |-> None,
     cursor |-> None, revalidate_cache |-> None]

\* ListKeysRequest::set_limit(limit)
ListSetLimit(r, x) == [r EXCEPT !.limit = Some(x)]

\* ListKeysRequest::set_cursor(cursor)
ListSetCursor(r, x) == [r EXCEPT !.cursor = Some(x)]

\* ListKeysRequest::set_owner_id(owner_id)
ListSetOwnerId(r, x) == [r EXCEPT !.owner_id = Some(x)]

\* ListKeysRequest::set_revalidate_cache(revalidate_cache)
ListSetRevalidateCache(r, x) == [r EXCEPT !.revalidate_cache = Some(x)]

\* The list setter of field f.
ListSet(f, r, x) ==
    CASE f = "limit" -> ListSetLimit(r, x)
      [] f = "cursor" -> ListSetCursor(r, x)
      [] f = "owner_id" -> ListSetOwnerId(r, x)
      [] f = "revalidate_cache" -> ListSetRevalidateCache(r, x)

\* rename_all = "camelCase" on the field names of the requests, of Ratelimit
\* and of Refill; rename = "type" on Ratelimit::ratelimit_type.
CamelCase(f) ==
    CASE f = "api_id" -> "apiId"
      [] f = "key_id" -> "keyId"
      [] f = "owner_id" -> "ownerId"
      [] f = "byte_length" -> "byteLength"
      [] f = "refill_rate" -> "refillRate"
      [] f = "refill_interval" -> "refillInterval"
      [] f = "ratelimit_type" -> "type"
      [] OTHER -> f

\* A string that needs no escape, between quotes (serialize_str).
SerializeStr(x) == "\"" \o x \o "\""

\* "key":value
Member(key, text) == SerializeStr(key) \o ":" \o text

\* derive(Serialize) of Ratelimit; RatelimitType is written in lowercase.
SerializeRatelimit(x) ==
    "{" \o Member(CamelCase("ratelimit_type"), SerializeStr(x.ratelimit_type))
        \o "," \o Member(CamelCase("refill_rate"), SerializeUnsigned(x.refill_rate))
        \o "," \o Member(CamelCase("refill_interval"), SerializeUnsigned(x.refill_interval))
        \o "," \o Member(CamelCase("limit"), SerializeUnsigned(x.limit)) \o "}"

\* derive(Serialize) of Refill; RefillInterval is written in lowercase and
\* last_refilled_at carries skip_serializing.
SerializeRefill(x) ==
    "{" \o Member(CamelCase("amount"), SerializeUnsigned(x.amount))
        \o "," \o Member(CamelCase("interval"), SerializeStr(x.interval)) \o "}"

\* Serialize of a serde_json::Value that is an object with the one member
\* test, an unsigned integer.
SerializeMeta(x) == "{" \o Member("test", SerializeUnsigned(x.test)) \o "}"

\* T::serialize for the payload type T of the request field f.
SerializeValue(f, x) ==
    CASE f \in {"owner_id", "name", "prefix"} -> SerializeStr(x)
      [] f \in {"expires", "remaining", "byte_length"} -> SerializeUnsigned(x)
      [] f = "meta" -> SerializeMeta(x)
      [] f = "ratelimit" -> SerializeRatelimit(x)
      [] f = "refill" -> SerializeRefill(x)

\* impl Serialize for UndefinedOr<T>, T the payload type of the field f
SerializeUndefinedOrField(f, u) ==
    CASE u.tag = "Null" -> Ok("null")
      [] u.tag = "Value" -> Ok(SerializeValue(f, u.v))
      [] u.tag = "Undefined" -> Err("Undefined should never be serialized.")

\* A request field that is never skipped.
SkipFieldNever(r, f) == FALSE

\* skip_serializing_if = "UndefinedOr::is_undefined" on the field f of r
SkipField(r, f) == IsUndefined(r[f])

\* The tri-state fields of a derived request serializer from the i-th on,
\* the id member already written: a skipped field is left out, every other
\* one follows a comma, and an error of a field's serializer ends the call.
\* reached lists the fields handed to their serializer.
RECURSIVE SerializeRequestFrom(_, _, _, _, _)
SerializeRequestFrom(r, fields, i, text, reached) ==
    IF i > Len(fields)
    THEN [ok |-> TRUE, text |-> text \o "}", reached |-> reached]
    ELSE IF SkipField(r, fields[i])
    THEN SerializeRequestFrom(r, fields, i + 1, text, reached)
    ELSE LET res == SerializeUndefinedOrField(fields[i], r[fields[i]])
         IN  IF ~res.ok
             THEN [ok |-> FALSE, text |-> res.text, reached |-> Append(reached, fields[i])]
             ELSE SerializeRequestFrom(r, fields, i + 1,
                    text \o "," \o Member(CamelCase(fields[i]), res.text),
                    Append(reached, fields[i]))

\* serde_json::to_string(&r) of a CreateKeyRequest
SerializeCreateKeyRequest(r) ==
    SerializeRequestFrom(r, CreateFields, 1,
        "{" \o Member(CamelCase("api_id"), SerializeStr(r.api_id)), <<>>)

\* serde_json::to_string(&r) of an UpdateKeyRequest
SerializeUpdateKeyRequest(r) ==
    SerializeRequestFrom(r, UpdateFields, 1,
        "{" \o Member(CamelCase("key_id"), SerializeStr(r.key_id)), <<>>)

\* Arguments of the calls.
Ids == {"test", "test_123"}

StringValues == {"jonxslays", "test_key"}

UsizeValues == {42, 420}

MetaValues == {[test |-> 1], [test |-> 69]}

RatelimitValues ==
    {RatelimitNew("fast", 10, 10000, 100), RatelimitNew("consistent", 1, 1000, 1)}

RefillValues == {RefillNew(100, "daily"), RefillNew(1, "monthly")}

\* The values the setter of field f takes.
FieldValues(f) ==
    CASE f \in {"owner_id", "name", "prefix", "cursor"} -> StringValues
      [] f \in {"expires", "remaining", "byte_length", "limit"} -> UsizeValues
      [] f = "revalidate_cache" -> BOOLEAN
      [] f = "meta" -> MetaValues
      [] f = "ratelimit" -> RatelimitValues
      [] f = "refill" -> RefillValues

OptionsOf(S) == {None} \cup {Some(x) : x \in S}

\* Clock readings in milliseconds since the epoch; one is beyond usize.
Nows == {60000, 70000}

\* Arguments of CreateKeyRequest::set_expires.
ExpiresValues == {1000, 6000}

NeverSet == [n |-> 0, arg |-> None]

NoBody == [call |-> "none", res |-> Ok("")]

RECURSIVE SumCalls(_, _)
SumCalls(f, S) ==
    IF S = {} THEN 0
    ELSE LET x == CHOOSE y \in S : TRUE
         IN  f[x].n + SumCalls(f, S \ {x})

\* The setter calls made so far on the request.
SetterCalls == SumCalls(lastSet, DOMAIN lastSet)

\* No request made yet.
ReqIdle ==
    /\ req = [kind |-> "none"]
    /\ reqArg = ""
    /\ lastSet = [f \in AllFields |-> NeverSet]
    /\ proc = "running"
    /\ body = NoBody

\* ------------------------------------------------------------------------
\* Response texts and their JSON reading
\* ------------------------------------------------------------------------

\* A response text is a sequence of one-character strings, so that reading
\* it as JSON and searching it for a substring are computed character by
\* character.  The strings inside the texts are words of the table Chars
\* and hold no escape sequence; numbers are unsigned integers without a
\* leading zero.  An error text of serde_json is given without its
\* " at line L column C" ending.

\* The characters of the words of the response texts and of the query
\* strings.
Chars(w) ==
    CASE w = "error" -> <<"e", "r", "r", "o", "r">>
      [] w = "errors" -> <<"e", "r", "r", "o", "r", "s">>
      [] w = "code" -> <<"c", "o", "d", "e">>
      [] w = "message" -> <<"m", "e", "s", "s", "a", "g", "e">>
      [] w = "docs" -> <<"d", "o", "c", "s">>
      [] w = "requestId" -> <<"r", "e", "q", "u", "e", "s", "t", "I", "d">>
      [] w = "keyId" -> <<"k", "e", "y", "I", "d">>
      [] w = "key" -> <<"k", "e", "y">>
      [] w = "remaining" -> <<"r", "e", "m", "a", "i", "n", "i", "n", "g">>
      [] w = "NOT_FOUND" -> <<"N", "O", "T", "_", "F", "O", "U", "N", "D">>
      [] w = "UNAUTHORIZED" -> <<"U", "N", "A", "U", "T", "H", "O", "R", "I", "Z", "E", "D">>
      [] w = "CONFLICT" -> <<"C", "O", "N", "F", "L", "I", "C", "T">>
      [] w = "RATELIMITED" -> <<"R", "A", "T", "E", "L", "I", "M", "I", "T", "E", "D">>
      [] w = "not_found" -> <<"n", "o", "t", "_", "f", "o", "u", "n", "d">>
      [] w = "key not found" -> <<"k", "e", "y", " ", "n", "o", "t", " ", "f", "o", "u", "n", "d">>
      [] w = "unauthorized" -> <<"u", "n", "a", "u", "t", "h", "o", "r", "i", "z", "e", "d">>
      [] w = "see docs" -> <<"s", "e", "e", " ", "d", "o", "c", "s">>
      [] w = "req_1" -> <<"r", "e", "q", "_", "1">>
      [] w = "key_123" -> <<"k", "e", "y", "_", "1", "2", "3">>
      [] w = "prefix_abc" -> <<"p", "r", "e", "f", "i", "x", "_", "a", "b", "c">>
      [] w = "null" -> <<"n", "u", "l", "l">>
      [] w = "ok" -> <<"o", "k">>
      [] w = "server error" -> <<"s", "e", "r", "v", "e", "r", " ", "e", "r", "r", "o", "r">>
      [] w = "apiId" -> <<"a", "p", "i", "I", "d">>
      [] w = "limit" -> <<"l", "i", "m", "i", "t">>
      [] w = "revalidateKeysCache" -> <<"r", "e", "v", "a", "l", "i", "d", "a", "t", "e", "K", "e", "y", "s", "C", "a", "c", "h", "e">>
      [] w = "ownerId" -> <<"o", "w", "n", "e", "r", "I", "d">>
      [] w = "cursor" -> <<"c", "u", "r", "s", "o", "r">>
      [] w = "true" -> <<"t", "r", "u", "e">>
      [] w = "false" -> <<"f", "a", "l", "s", "e">>
      [] w = "test" -> <<"t", "e", "s", "t">>
      [] w = "test_123" -> <<"t", "e", "s", "t", "_", "1", "2", "3">>
      [] w = "jonxslays" -> <<"j", "o", "n", "x", "s", "l", "a", "y", "s">>
      [] w = "test_key" -> <<"t", "e", "s", "t", "_", "k", "e", "y">>

Words ==
    {"error", "errors", "code", "message", "docs", "requestId", "keyId",
    "key", "remaining", "NOT_FOUND", "UNAUTHORIZED", "CONFLICT",
    "RATELIMITED", "not_found", "key not found", "unauthorized", "see docs",
    "req_1", "key_123", "prefix_abc", "null", "ok", "server error", "apiId",
    "limit", "revalidateKeysCache", "ownerId", "cursor", "true", "false",
    "test", "test_123", "jonxslays", "test_key"}

\* The word whose characters are cs.
WordOf(cs) == CHOOSE w \in Words : Chars(w) = cs

Quote == <<"\"">>

\* "w"
Quoted(w) == Quote \o Chars(w) \o Quote

Digits == {"0", "1", "2", "3", "4", "5", "6", "7", "8", "9"}

DigitValue(c) ==
    CASE c = "0" -> 0 [] c = "1" -> 1 [] c = "2" -> 2 [] c = "3" -> 3
      [] c = "4" -> 4 [] c = "5" -> 5 [] c = "6" -> 6 [] c = "7" -> 7
      [] c = "8" -> 8 [] c = "9" -> 9

\* str::contains(pat)
Contains(s, pat) ==
    \E i \in 1..(Len(s) - Len(pat) + 1) : SubSeq(s, i, i + Len(pat) - 1) = pat

\* The text s holds lit at position i.
StartsWith(s, i, lit) ==
    /\ i + Len(lit) - 1 <= Len(s)
    /\ SubSeq(s, i, i + Len(lit) - 1) = lit

\* A JSON value read up to position i - 1, or the failure of reading one.
Parsed(v, i) == [ok |-> TRUE, v |-> v, i |-> i]

Failed(msg) == [ok |-> FALSE, text |-> msg]

JsonNull == [k |-> "null"]

JsonBool(b) == [k |-> "bool", v |-> b]

JsonNum(n) == [k |-> "num", v |-> n]

JsonStr(w) == [k |-> "str", v |-> w]

JsonArr(elems) == [k |-> "arr", v |-> elems]

\* members: a sequence of pairs <<key, value>> in the order of the text
JsonObj(members) == [k |-> "obj", v |-> members]

\* The first position from i on that holds no white space.
RECURSIVE SkipWs(_, _)
SkipWs(s, i) == IF i <= Len(s) /\ s[i] = " " THEN SkipWs(s, i + 1) ELSE i

\* The digits from position i on, read as a number after acc.
RECURSIVE ParseDigits(_, _, _)
ParseDigits(s, i, acc) ==
    IF i <= Len(s) /\ s[i] \in Digits
    THEN ParseDigits(s, i + 1, acc * 10 + DigitValue(s[i]))
    ELSE Parsed(JsonNum(acc), i)

\* The position of the first quote from i on, 0 when there is none.
RECURSIVE StringEnd(_, _)
StringEnd(s, i) ==
    IF i > Len(s) THEN 0 ELSE IF s[i] = "\"" THEN i ELSE StringEnd(s, i + 1)

\* The string that opens with the quote at position i.
ParseStringAt(s, i) ==
    LET j == StringEnd(s, i + 1)
    IN  IF j = 0 THEN Failed("EOF while parsing a string")
        ELSE Parsed(WordOf(SubSeq(s, i + 1, j - 1)), j + 1)

RECURSIVE ParseValue(_, _)
RECURSIVE ParseMembers(_, _, _)
RECURSIVE ParseElements(_, _, _)

\* The JSON value that starts at or after position i0.
ParseValue(s, i0) ==
    LET i == SkipWs(s, i0)
    IN  IF i > Len(s) THEN Failed("EOF while parsing a value")
        ELSE IF s[i] = "{"
        THEN LET j == SkipWs(s, i + 1)
             IN  IF j <= Len(s) /\ s[j] = "}" THEN Parsed(JsonObj(<<>>), j + 1)
                 ELSE ParseMembers(s, j, <<>>)
        ELSE IF s[i] = "["
        THEN LET j == SkipWs(s, i + 1)
             IN  IF j <= Len(s) /\ s[j] = "]" THEN Parsed(JsonArr(<<>>), j + 1)
                 ELSE ParseElements(s, j, <<>>)
        ELSE IF s[i] = "\""
        THEN LET r == ParseStringAt(s, i)
             IN  IF r.ok THEN Parsed(JsonStr(r.v), r.i) ELSE r
        ELSE IF s[i] \in Digits THEN ParseDigits(s, i, 0)
        ELSE IF s[i] = "n"
        THEN IF StartsWith(s, i, <<"n", "u", "l", "l">>) THEN Parsed(JsonNull, i + 4)
             ELSE Failed("expected ident")
        ELSE IF s[i] = "t"
        THEN IF StartsWith(s, i, <<"t", "r", "u", "e">>) THEN Parsed(JsonBool(TRUE), i + 4)
             ELSE Failed("expected ident")
        ELSE IF s[i] = "f"
        THEN IF StartsWith(s, i, <<"f", "a", "l", "s", "e">>)
             THEN Parsed(JsonBool(FALSE), i + 5)
             ELSE Failed("expected ident")
        ELSE Failed("expected value")

\* The members of an object from position i on, a key being due, after the
\* members acc.
ParseMembers(s, i, acc) ==
    IF i > Len(s) THEN Failed("EOF while parsing an object")
    ELSE IF s[i] # "\"" THEN Failed("key must be a string")
    ELSE LET key == ParseStringAt(s, i)
         IN  IF ~key.ok THEN key
             ELSE LET c == SkipWs(s, key.i)
                  IN  IF c > Len(s) THEN Failed("EOF while parsing an object")
                      ELSE IF s[c] # ":" THEN Failed("expected ':'")
                      ELSE LET val == ParseValue(s, c + 1)
                           IN  IF ~val.ok THEN val
                               ELSE LET e == SkipWs(s, val.i)
                                        all == Append(acc, <<key.v, val.v>>)
                                    IN  IF e > Len(s)
                                        THEN Failed("EOF while parsing an object")
                                        ELSE IF s[e] = "}" THEN Parsed(JsonObj(all), e + 1)
                                        ELSE IF s[e] = ","
                                        THEN ParseMembers(s, SkipWs(s, e + 1), all)
                                        ELSE Failed("expected ',' or '}'")

\* The elements of an array from position i on, after the elements acc.
ParseElements(s, i, acc) ==
    LET val == ParseValue(s, i)
    IN  IF ~val.ok THEN val
        ELSE LET e == SkipWs(s, val.i)
                 all == Append(acc, val.v)
             IN  IF e > Len(s) THEN Failed("EOF while parsing a list")
                 ELSE IF s[e] = "]" THEN Parsed(JsonArr(all), e + 1)
                 ELSE IF s[e] = "," THEN ParseElements(s, e + 1, all)
                 ELSE Failed("expected ',' or ']'")

\* The one JSON value of the text s (the reading of serde_json::from_str
\* before the value is given its type): text after the value is an error.
FromStrContent(s) ==
    LET r == ParseValue(s, 1)
    IN  IF ~r.ok THEN r
        ELSE IF SkipWs(s, r.i) <= Len(s) THEN Failed("trailing characters")
        ELSE r

\* ------------------------------------------------------------------------
\* The response envelope
\* ------------------------------------------------------------------------

\* A value decoded from JSON, or the failure of decoding one is Failed(msg).
Decoded(v) == [ok |-> TRUE, v |-> v]

\* The variants of ErrorCode by their names in JSON
\* (rename_all = "SCREAMING_SNAKE_CASE").
KnownCodes ==
    [VALID |-> "Valid", NOT_FOUND |-> "NotFound", FORBIDDEN |-> "Forbidden",
     BAD_REQUEST |-> "BadRequest", RATE_LIMITED |-> "RateLimited",
     UNAUTHORIZED |-> "Unauthorized", USAGE_EXCEEDED |-> "UsageExceeded",
     INTERNAL_SERVER_ERROR |-> "InternalServerError",
     INVALID_KEY_TYPE |-> "InvalidKeyType", NOT_UNIQUE |-> "NotUnique",
     CONFLICT |-> "Conflict", DELETE_PROTECTED |-> "DeleteProtected",
     EXPIRED |-> "Expired", DISABLED |-> "Disabled",
     TOO_MANY_REQUESTS |-> "TooManyRequests", UNKNOWN |-> "Unknown"]

\* An ErrorCode without serde(other): a name that is no variant's fails.
ErrorCodeStrict(w) ==
    IF w \in DOMAIN KnownCodes THEN Decoded(KnownCodes[w])
    ELSE Failed("unknown variant")

\* The variant of ErrorCode named w; serde(other) on Unknown takes every
\* name that is no variant's.
ErrorCodeNamed(w) ==
    IF w \in DOMAIN KnownCodes THEN Decoded(KnownCodes[w]) ELSE Decoded("Unknown")

\* ErrorCode::deserialize: a unit variant is a string, or a map of the one
\* key that names it with the value null.
DeserializeErrorCode(c) ==
    IF c.k = "str" THEN ErrorCodeNamed(c.v)
    ELSE IF c.k = "obj"
    THEN IF Len(c.v) # 1 THEN Failed("invalid value: map, expected map with a single key")
         ELSE IF c.v[1][2].k # "null"
         THEN Failed("invalid type, expected unit variant")
         ELSE ErrorCodeNamed(c.v[1][1])
    ELSE Failed("invalid type, expected string or map")

\* T::deserialize for the type ty of a struct field.
DeserializeField(ty, c) ==
    CASE ty = "ErrorCode" -> DeserializeErrorCode(c)
      [] ty = "String" ->
            IF c.k = "str" THEN Decoded(c.v) ELSE Failed("invalid type, expected a string")
      [] ty = "usize" ->
            IF c.k = "num" THEN Decoded(c.v) ELSE Failed("invalid type, expected usize")

\* The fields of the structs read from responses, by their names in JSON.
HttpErrorFields == <<[name |-> "code", ty |-> "ErrorCode"], [name |-> "message", ty |-> "String"]>>

CreateKeyResponseFields == <<[name |-> "keyId", ty |-> "String"], [name |-> "key", ty |-> "String"]>>

UpdateRemainingResponseFields == <<[name |-> "remaining", ty |-> "usize"]>>

\* The index of the field named key, 0 when there is none.
FieldIndex(fields, key) ==
    IF \E j \in 1..Len(fields) : fields[j].name = key
    THEN CHOOSE j \in 1..Len(fields) : fields[j].name = key
    ELSE 0

\* derive(Deserialize) of a struct, visit_map: the members from the i-th on,
\* got holding the fields read so far.  A key that names no field is
\* ignored, a field given twice or not at all is an error.
RECURSIVE VisitMap(_, _, _, _)
VisitMap(members, i, fields, got) ==
    IF i > Len(members)
    THEN IF \E j \in 1..Len(fields) : fields[j].name \notin DOMAIN got
         THEN Failed("missing field")
         ELSE Decoded(got)
    ELSE LET key == members[i][1]
             j == FieldIndex(fields, key)
         IN  IF j = 0 THEN VisitMap(members, i + 1, fields, got)
             ELSE IF key \in DOMAIN got THEN Failed("duplicate field")
             ELSE LET r == DeserializeField(fields[j].ty, members[i][2])
                  IN  IF ~r.ok THEN r
                      ELSE VisitMap(members, i + 1, fields, got @@ (key :> r.v))

\* derive(Deserialize) of a struct, visit_seq: the elements are the fields
\* in declaration order.
RECURSIVE VisitSeq(_, _, _, _)
VisitSeq(elems, i, fields, got) ==
    IF i > Len(fields)
    THEN IF Len(elems) > Len(fields) THEN Failed("invalid length") ELSE Decoded(got)
    ELSE IF i > Len(elems) THEN Failed("invalid length")
    ELSE LET r == DeserializeField(fields[i].ty, elems[i])
         IN  IF ~r.ok THEN r
             ELSE VisitSeq(elems, i + 1, fields, got @@ (fields[i].name :> r.v))

\* derive(Deserialize) of a struct with the given fields.
DeserializeStruct(fields, c) ==
    IF c.k = "obj" THEN VisitMap(c.v, 1, fields, <<>>)
    ELSE IF c.k = "arr" THEN VisitSeq(c.v, 1, fields, <<>>)
    ELSE Failed("invalid type, expected struct")

\* HttpError::new(code, message)
HttpErrorNew(code, message) == [code |-> code, message |-> message]

\* HttpError::deserialize
DeserializeHttpError(c) ==
    LET r == DeserializeStruct(HttpErrorFields, c)
    IN  IF r.ok THEN Decoded(HttpErrorNew(r.v["code"], r.v["message"])) ELSE r

\* The types T the responses are read as.
Unit == [unit |-> TRUE]

ResponseTypes == {"()", "CreateKeyResponse", "UpdateRemainingResponse"}

\* T::deserialize
DeserializeT(T, c) ==
    CASE T = "()" -> IF c.k = "null" THEN Decoded(Unit) ELSE Failed("invalid type, expected unit")
      [] T = "CreateKeyResponse" -> DeserializeStruct(CreateKeyResponseFields, c)
      [] T = "UpdateRemainingResponse" -> DeserializeStruct(UpdateRemainingResponseFields, c)
      \* the structs whose fields are not held here are read from any
      \* object and any array
      [] OTHER -> IF c.k \in {"obj", "arr"} THEN Decoded([struct |-> T])
                  ELSE Failed("invalid type, expected struct")

WrappedErr(e) == [variant |-> "Err", v |-> e]

WrappedOk(x) == [variant |-> "Ok", v |-> x]

\* The variant Err of Wrapped<T>, serde(rename = "error"), externally
\* tagged: a map of the one key error whose value is an HttpError.
DeserializeWrappedErr(c) ==
    IF c.k = "obj"
    THEN IF Len(c.v) # 1 THEN Failed("invalid value: map, expected map with a single key")
         ELSE IF c.v[1][1] # "error" THEN Failed("unknown variant, expected 'error'")
         ELSE DeserializeHttpError(c.v[1][2])
    ELSE IF c.k = "str"
    THEN IF c.v # "error" THEN Failed("unknown variant, expected 'error'")
         ELSE Failed("invalid type: unit variant, expected newtype variant")
    ELSE Failed("invalid type, expected string or map")

\* A Wrapped<T> without its variant Ok.
DeserializeWrappedErrOnly(T, c) ==
    LET e == DeserializeWrappedErr(c)
    IN  IF e.ok THEN Decoded(WrappedErr(e.v))
        ELSE Failed("data did not match any variant of enum Wrapped")

\* Wrapped<T>::deserialize: the variant Err is tried first and the variant
\* Ok, serde(untagged), when Err does not fit.
DeserializeWrapped(T, c) ==
    LET e == DeserializeWrappedErr(c)
        x == DeserializeT(T, c)
    IN  IF e.ok THEN Decoded(WrappedErr(e.v))
        ELSE IF x.ok THEN Decoded(WrappedOk(x.v))
        ELSE Failed("data did not match any variant of enum Wrapped")

\* serde_json::from_str::<Wrapped<T>>(text)
FromStrWrapped(T, text) ==
    LET c == FromStrContent(text)
    IN  IF ~c.ok THEN c ELSE DeserializeWrapped(T, c.v)

ResultOk(x) == [ok |-> TRUE, v |-> x]

ResultErr(e) == [ok |-> FALSE, err |-> e]

\* A conversion that takes the error variant for success.
FromWrappedSuccess(wrapped) == ResultOk(wrapped.v)

\* impl From<Wrapped<T>> for Result<T, HttpError>
FromWrapped(wrapped) ==
    IF wrapped.variant = "Err" THEN ResultErr(wrapped.v) ELSE ResultOk(wrapped.v)

\* A response_error! that drops the text of the error.
ResponseErrorNoText(code, err) == ResultErr(HttpErrorNew(code, ""))

\* response_error!(code, err)
ResponseError(code, err) == ResultErr(HttpErrorNew(code, err))

\* The text of a response as Response::text gives it; the error of reading
\* it is Err(msg).
Text(chars) == [ok |-> TRUE, chars |-> chars]

\* An HttpResult: the request failed with an error, or gave a response
\* whose text() is the text read or the error of reading it.
HttpResultErr(e) == [result |-> "Err", error |-> e]

HttpResultOk(text) == [result |-> "Ok", text |-> text]

\* The first match of parse_response and parse_empty_response: the text of
\* the response, or the error of the request.
ResponseData(result) ==
    IF result.result = "Ok" THEN result.text ELSE Err(result.error)

\* A parse_response that gives the decoded T whatever the envelope holds.
ParseResponseNoEnvelope(T, result) ==
    LET data == ResponseData(result)
        c == FromStrContent(data.chars)
        x == DeserializeT(T, c.v)
    IN  [ret |-> IF ~data.ok THEN ResponseError("Unknown", data.text)
                 ELSE IF ~c.ok THEN ResponseError("Unknown", c.text)
                 ELSE IF ~x.ok THEN ResponseError("Unknown", x.text)
                 ELSE ResultOk(x.v),
         text_calls |-> IF result.result = "Ok" THEN 1 ELSE 0,
         from_str_calls |-> IF data.ok THEN 1 ELSE 0]

\* parse_response::<T>(result): what it returns, and how often it called
\* Response::text and serde_json::from_str.
ParseResponse(T, result) ==
    LET data == ResponseData(result)
        r == FromStrWrapped(T, data.chars)
    IN  [ret |-> IF ~data.ok THEN ResponseError("Unknown", data.text)
                 ELSE IF ~r.ok THEN ResponseError("Unknown", r.text)
                 ELSE FromWrapped(r.v),
         text_calls |-> IF result.result = "Ok" THEN 1 ELSE 0,
         from_str_calls |-> IF data.ok THEN 1 ELSE 0]

\* A parse_empty_response that takes every text it cannot read for success.
ParseEmptyResponseLenient(result) ==
    LET data == ResponseData(result)
        r == FromStrWrapped("()", data.chars)
    IN  [ret |-> IF ~data.ok THEN ResponseError("Unknown", data.text)
                 ELSE IF r.ok THEN FromWrapped(r.v)
                 ELSE ResultOk(Unit),
         text_calls |-> IF result.result = "Ok" THEN 1 ELSE 0,
         from_str_calls |-> IF data.ok THEN 1 ELSE 0]

\* parse_empty_response(result)
ParseEmptyResponse(result) ==
    LET data == ResponseData(result)
        r == FromStrWrapped("()", data.chars)
    IN  [ret |-> IF ~data.ok THEN ResponseError("Unknown", data.text)
                 ELSE IF r.ok THEN FromWrapped(r.v)
                 ELSE IF Contains(data.chars, Chars("error"))
                 THEN ResponseError("Unknown", r.text)
                 ELSE ResultOk(Unit),
         text_calls |-> IF result.result = "Ok" THEN 1 ELSE 0,
         from_str_calls |-> IF data.ok THEN 1 ELSE 0]

\* "k":v
Pair(k, v) == Quoted(k) \o <<":">> \o v

\* {m} and {m1,m2}
Object1(m) == <<"{">> \o m \o <<"}">>

Object2(m1, m2) == <<"{">> \o m1 \o <<",">> \o m2 \o <<"}">>

\* {"code":"code","message":"message"}
ErrorObject(code, message) ==
    Object2(Pair("code", Quoted(code)), Pair("message", Quoted(message)))

\* {"error":{"code":"code","message":"message"}}
ErrorBody(code, message) == Object1(Pair("error", ErrorObject(code, message)))

\* {"error":{"code":"code","docs":"see docs","message":"message","requestId":"req_1"}}
ErrorBodyWithDocs(code, message) ==
    Object1(Pair("error",
        <<"{">> \o Pair("code", Quoted(code)) \o <<",">> \o Pair("docs", Quoted("see docs"))
              \o <<",">> \o Pair("message", Quoted(message))
              \o <<",">> \o Pair("requestId", Quoted("req_1")) \o <<"}">>))

\* {"keyId":"key_id","key":"key"}
CreateKeyBody(key_id, key) == Object2(Pair("keyId", Quoted(key_id)), Pair("key", Quoted(key)))

\* {"remaining":42}
RemainingBody == Object1(Pair("remaining", <<"4", "2">>))

\* The names of variants of ErrorCode and the names of no variant that the
\* error bodies carry.
KnownCodeWords == {"NOT_FOUND", "UNAUTHORIZED", "CONFLICT"}

UnknownCodeWords == {"RATELIMITED", "not_found"}

MessageWords == {"key not found", "unauthorized"}

\* Bodies of the error shape.
ErrorBodies ==
    {ErrorBody(c, m) : c \in KnownCodeWords \cup UnknownCodeWords, m \in MessageWords}
        \cup {ErrorBodyWithDocs("UNAUTHORIZED", "unauthorized")}

\* Bodies that hold the word error and are not of the error shape.
NearErrorBodies ==
    {Object1(Pair("error", Object1(Pair("code", Quoted("NOT_FOUND"))))),
     Object1(Pair("error", Object2(Pair("code", <<"5">>), Pair("message", Quoted("key not found"))))),
     Object2(Pair("error", ErrorObject("NOT_FOUND", "key not found")),
             Pair("requestId", Quoted("req_1"))),
     Object2(Pair("error", ErrorObject("NOT_FOUND", "key not found")),
             Pair("remaining", <<"4", "2">>)),
     Object1(Pair("errors", <<"[", "]">>)),
     Quoted("error"),
     Chars("server error")}

\* Bodies without the word error.
PlainBodies ==
    {CreateKeyBody("key_123", "prefix_abc"),
     Object1(Pair("keyId", Quoted("key_123"))),
     RemainingBody,
     Chars("null"),
     <<>>,
     <<"{", "}">>,
     Chars("ok")}

Bodies == ErrorBodies \cup NearErrorBodies \cup PlainBodies

\* Texts of the errors of sending a request and of reading a response.
TransportErrors == {"error sending request", "operation timed out"}

ReadErrors == {"error decoding response body"}

\* The results a call of HttpService::fetch gives.
HttpResults ==
    {HttpResultErr(e) : e \in TransportErrors}
        \cup {HttpResultOk(Err(e)) : e \in ReadErrors}
        \cup {HttpResultOk(Text(b)) : b \in Bodies}

NoParsed == [call |-> "none", ret |-> ResultOk(Unit), text_calls |-> 0, from_str_calls |-> 0]

\* No response parsed yet.
RespIdle ==
    /\ resp = HttpResultOk(Text(<<>>))
    /\ expect = "()"
    /\ parsed = NoParsed

\* ---------------------------------------------------------------------
\* The client: the HttpService with its base url and headers, and the
\* operations of the KeyService and the ApiService.

\* The production base url.
BASE_API_URL ==
    <<"h", "t", "t", "p", "s", ":", "/", "/", "a", "p", "i", ".", "u", "n", "k",
      "e", "y", ".", "d", "e", "v", "/", "v", "1">>

LocalUrl ==
    <<"h", "t", "t", "p", ":", "/", "/", "l", "o", "c", "a", "l", "h", "o", "s",
      "t", ":", "3", "0", "0", "0">>

OtherUrl == <<"h", "t", "t", "p", ":", "/", "/", "h", ":", "8", "0">>

Urls == {LocalUrl, OtherUrl}

\* Root keys; the last one holds a line feed.
KeyGhj == <<"u", "n", "k", "e", "y", "_", "g", "h", "j">>

KeyAbc == <<"u", "n", "k", "e", "y", "_", "a", "b", "c">>

KeyBroken == <<"u", "n", "k", "\n", "e", "y">>

RootKeys == {KeyGhj, KeyAbc, KeyBroken}

\* The characters no header value holds: the control characters, of which
\* the keys hold the line feed and the carriage return at most.
ControlChars == {"\n", "\r"}

\* HeaderValue::from_str(s)
HeaderValueFromStr(s) ==
    IF \E i \in 1..Len(s) : s[i] \in ControlChars
    THEN [ok |-> FALSE, chars |-> <<>>]
    ELSE [ok |-> TRUE, chars |-> s]

\* The version of the package, which the build sets.
CARGO_PKG_VERSION == <<"0", ".", "0", ".", "0">>

ApplicationJson ==
    <<"a", "p", "p", "l", "i", "c", "a", "t", "i", "o", "n", "/", "j", "s", "o", "n">>

Bearer == <<"B", "e", "a", "r", "e", "r", " ">>

UserAgent ==
    <<"U", "n", "k", "e", "y", " ", "R", "u", "s", "t", " ", "S", "D", "K", " ", "v">>
        \o CARGO_PKG_VERSION

\* HttpService::generate_headers(key): the header map, or the exit of the
\* process when a value is no header value.
GenerateHeaders(key) ==
    LET accept == HeaderValueFromStr(ApplicationJson)
        agent == HeaderValueFromStr(UserAgent)
        auth == HeaderValueFromStr(Bearer \o key)
    IN  IF accept.ok /\ agent.ok /\ auth.ok
        THEN [ok |-> TRUE,
              headers |-> [Accept |-> accept.chars, x_user_agent |-> agent.chars,
                           Authorization |-> auth.chars]]
        ELSE [ok |-> FALSE, headers |-> <<>>]

NoClient == [made |-> FALSE, url |-> <<>>, headers |-> <<>>]

\* HttpService::new(key), after generate_headers gave the headers
HttpServiceNew(headers) == [made |-> TRUE, url |-> BASE_API_URL, headers |-> headers]

\* HttpService::with_url(key, url), after generate_headers gave the headers
HttpServiceWithUrl(headers, url) == [made |-> TRUE, url |-> url, headers |-> headers]

\* A set_key that takes the Authorization header away when the key is no
\* header value.
HttpServiceSetKeyClears(c, key) ==
    LET header == HeaderValueFromStr(key)
    IN  [c EXCEPT !.headers.Authorization = header.chars]

\* HttpService::set_key(key)
HttpServiceSetKey(c, key) ==
    LET header == HeaderValueFromStr(key)
    IN  IF ~header.ok THEN c
        ELSE [c EXCEPT !.headers.Authorization = header.chars]

\* HttpService::set_url(url)
HttpServiceSetUrl(c, url) == [c EXCEPT !.url = url]

\* serde_json::to_string(&r) of a VerifyKeyRequest
SerializeVerifyKeyRequest(r) ==
    Ok("{" \o Member(CamelCase("key"), SerializeStr(r.key))
           \o "," \o Member(CamelCase("api_id"), SerializeStr(r.api_id)) \o "}")

\* serde_json::to_string(&r) of a RevokeKeyRequest
SerializeRevokeKeyRequest(r) ==
    Ok("{" \o Member(CamelCase("key_id"), SerializeStr(r.key_id)) \o "}")

\* serde_json::to_string(&r) of an UpdateRemainingRequest; UpdateOp is
\* written in lowercase, a value of None as null.
SerializeUpdateRemainingRequest(r) ==
    Ok("{" \o Member(CamelCase("key_id"), SerializeStr(r.key_id))
           \o "," \o Member(CamelCase("value"),
                           IF r.value.some THEN SerializeUnsigned(r.value.v) ELSE "null")
           \o "," \o Member(CamelCase("op"), SerializeStr(r.op)) \o "}")

\* RequestBuilder::json(&p): the payload written as JSON
SerializeJson(p) ==
    CASE p.kind = "create" -> SerializeCreateKeyRequest(p)
      [] p.kind = "update" -> SerializeUpdateKeyRequest(p)
      [] p.kind = "verify" -> SerializeVerifyKeyRequest(p)
      [] p.kind = "revoke" -> SerializeRevokeKeyRequest(p)
      [] p.kind = "update_remaining" -> SerializeUpdateRemainingRequest(p)

\* The body of the request: none without a payload.
JsonBody(payload) ==
    IF payload.some THEN Some(SerializeJson(payload.v).text) ELSE None

\* A fetch that attaches no body.
FetchNoBody(c, r, payload, result) ==
    LET request == [method |-> r.method, url |-> c.url \o r.uri \o BuildQueryRoute(r),
                    headers |-> c.headers, body |-> None]
    IN  [requests |-> <<request>>, result |-> result]

\* A fetch that sends every request to the production base url.
FetchProductionUrl(c, r, payload, result) ==
    LET request == [method |-> r.method,
                    url |-> BASE_API_URL \o r.uri \o BuildQueryRoute(r),
                    headers |-> c.headers, body |-> JsonBody(payload)]
    IN  [requests |-> <<request>>, result |-> result]

\* A fetch that sends the request once more when the request failed.
FetchRetry(c, r, payload, result) ==
    LET request == [method |-> r.method, url |-> c.url \o r.uri \o BuildQueryRoute(r),
                    headers |-> c.headers, body |-> JsonBody(payload)]
    IN  [requests |-> IF result.result = "Err" THEN <<request, request>> ELSE <<request>>,
         result |-> result]

\* HttpService::fetch(route, payload): the requests sent, and the
\* HttpResult, which is what the network gave.
Fetch(c, r, payload, result) ==
    LET request == [method |-> r.method, url |-> c.url \o r.uri \o BuildQueryRoute(r),
                    headers |-> c.headers, body |-> JsonBody(payload)]
    IN  [requests |-> <<request>>, result |-> result]

\* usize::to_string
RECURSIVE UsizeToString(_)
UsizeToString(n) ==
    LET d == CHOOSE c \in Digits : DigitValue(c) = n % 10
    IN  IF n < 10 THEN <<d>> ELSE UsizeToString(n \div 10) \o <<d>>

\* bool::to_string
BoolToString(b) == IF b THEN Chars("true") ELSE Chars("false")

\* VerifyKeyRequest::new(key, api_id)
VerifyKeyRequestNew(key, api_id) == [kind |-> "verify", key |-> key, api_id |-> api_id]

\* RevokeKeyRequest::new(key_id)
RevokeKeyRequestNew(key_id) == [kind |-> "revoke", key_id |-> key_id]

\* GetKeyRequest::new(key_id)
GetKeyRequestNew(key_id) == [kind |-> "get_key", key_id |-> key_id]

\* UpdateRemainingRequest::new(key_id, value, op)
UpdateRemainingRequestNew(key_id, value, op) ==
    [kind |-> "update_remaining", key_id |-> key_id, value |-> value, op |-> op]

\* GetApiRequest::new(api_id)
GetApiRequestNew(api_id) == [kind |-> "get_api", api_id |-> api_id]

\* What an operation hands to fetch! and which function reads the result
\* as which type.
Plan(r, payload, parse, T) == [route |-> r, payload |-> payload, parse |-> parse, T |-> T]

\* KeyService::create_key
CreateKeyPlan(r) ==
    Plan(CompiledRouteNew(CREATE_KEY), Some(r), "parse_response", "CreateKeyResponse")

\* KeyService::verify_key
VerifyKeyPlan(r) ==
    Plan(CompiledRouteNew(VERIFY_KEY), Some(r), "parse_response", "VerifyKeyResponse")

\* KeyService::revoke_key
RevokeKeyPlan(r) ==
    Plan(CompiledRouteNew(REVOKE_KEY), Some(r), "parse_empty_response", "()")

\* KeyService::update_key
UpdateKeyPlan(r) ==
    Plan(CompiledRouteNew(UPDATE_KEY), Some(r), "parse_empty_response", "()")

\* KeyService::get_key
GetKeyPlan(r) ==
    Plan(QueryInsertRoute(CompiledRouteNew(GET_KEY), Chars("keyId"), Chars(r.key_id)),
         None, "parse_response", "ApiKey")

\* KeyService::update_remaining
UpdateRemainingPlan(r) ==
    Plan(CompiledRouteNew(UPDATE_REMAINING), Some(r), "parse_response",
         "UpdateRemainingResponse")

\* A list_keys that sends the limit only when the request holds one.
ListKeysPlanNoDefault(r) ==
    LET r1 == QueryInsertRoute(CompiledRouteNew(LIST_KEYS), Chars("apiId"), Chars(r.api_id))
        r2 == IF r.limit.some
              THEN QueryInsertRoute(r1, Chars("limit"), UsizeToString(r.limit.v))
              ELSE r1
        r3 == IF r.revalidate_cache.some
              THEN QueryInsertRoute(r2, Chars("revalidateKeysCache"),
                                    BoolToString(r.revalidate_cache.v))
              ELSE r2
        r4 == IF r.owner_id.some
              THEN QueryInsertRoute(r3, Chars("ownerId"), Chars(r.owner_id.v))
              ELSE r3
        r5 == IF r.cursor.some
              THEN QueryInsertRoute(r4, Chars("cursor"), Chars(r.cursor.v))
              ELSE r4
    IN  Plan(r5, None, "parse_response", "ListKeysResponse")

\* ApiService::list_keys
ListKeysPlan(r) ==
    LET r1 == QueryInsertRoute(CompiledRouteNew(LIST_KEYS), Chars("apiId"), Chars(r.api_id))
        r2 == QueryInsertRoute(r1, Chars("limit"),
                               UsizeToString(IF r.limit.some THEN r.limit.v ELSE 100))
        r3 == IF r.revalidate_cache.some
              THEN QueryInsertRoute(r2, Chars("revalidateKeysCache"),
                                    BoolToString(r.revalidate_cache.v))
              ELSE r2
        r4 == IF r.owner_id.some
              THEN QueryInsertRoute(r3, Chars("ownerId"), Chars(r.owner_id.v))
              ELSE r3
        r5 == IF r.cursor.some
              THEN QueryInsertRoute(r4, Chars("cursor"), Chars(r.cursor.v))
              ELSE r4
    IN  Plan(r5, None, "parse_response", "ListKeysResponse")

\* ApiService::get_api
GetApiPlan(r) ==
    Plan(QueryInsertRoute(CompiledRouteNew(GET_API), Chars("apiId"), Chars(r.api_id)),
         None, "parse_response", "GetApiResponse")

\* The operations of the client.
Operations ==
    {"create_key", "verify_key", "revoke_key", "update_key", "get_key",
     "update_remaining", "list_keys", "get_api"}

\* Arguments of the operations.
UpdateOps == {"increment", "set"}

UpdateKeyRequests ==
    {UpdateKeyRequestNew("test_123"),
     UpdateSetName(UpdateSetRemaining(UpdateKeyRequestNew("test_123"), Some(420)), None)}

ListKeysRequests ==
    {ListKeysRequestNew("test"),
     ListSetCursor(ListKeysRequestNew("test"), "jonxslays"),
     ListSetCursor(ListSetOwnerId(ListSetRevalidateCache(
        ListSetLimit(ListKeysRequestNew("test_123"), 42), TRUE), "jonxslays"), "test_key")}

\* What the network gives: no response, the body of an error, the body null.
ClientResults ==
    {HttpResultErr("operation timed out"),
     HttpResultOk(Text(ErrorBody("NOT_FOUND", "key not found"))),
     HttpResultOk(Text(Chars("null")))}

NoCalls == [ops |-> 0, sets |-> 0, sends |-> 0]

\* A call on the client: its name and argument, the requests it sent, the
\* calls of parse functions it made and what it returned.
Called(op, arg, requests, decodes, returned) ==
    [op |-> op, arg |-> arg, requests |-> requests, decodes |-> decodes,
     ret |-> returned]

NoCall == Called("none", <<>>, <<>>, <<>>, ResultOk(Unit))

\* No client made yet.
ClientIdle ==
    /\ client = NoClient
    /\ rootKey = <<>>
    /\ call = NoCall
    /\ nCalls = NoCalls
    /\ cproc = "running"

\* ---------------------------------------------------------------------
\* Operations called at once on one client: each call is an async fn whose
\* statements run between the statements of the other calls.

\* The tasks that call the client at once.
Tasks == 1..MaxTasks

IdleTask == [pc |-> "idle"]

\* No operation in flight.
ConcIdle == tasks = [i \in Tasks |-> IdleTask]

\* The Route an operation compiles.
RouteOf(op) ==
    CASE op = "create_key" -> CREATE_KEY
      [] op = "verify_key" -> VERIFY_KEY
      [] op = "revoke_key" -> REVOKE_KEY
      [] op = "update_key" -> UPDATE_KEY
      [] op = "get_key" -> GET_KEY
      [] op = "update_remaining" -> UPDATE_REMAINING
      [] op = "list_keys" -> LIST_KEYS
      [] op = "get_api" -> GET_API

\* The query_insert calls of ApiService::list_keys, in their order.
ListKeysInserts(r) ==
    <<<<Chars("apiId"), Chars(r.api_id)>>,
      <<Chars("limit"), UsizeToString(IF r.limit.some THEN r.limit.v ELSE 100)>>>>
    \o (IF r.revalidate_cache.some
        THEN <<<<Chars("revalidateKeysCache"), BoolToString(r.revalidate_cache.v)>>>>
        ELSE <<>>)
    \o (IF r.owner_id.some THEN <<<<Chars("ownerId"), Chars(r.owner_id.v)>>>> ELSE <<>>)
    \o (IF r.cursor.some THEN <<<<Chars("cursor"), Chars(r.cursor.v)>>>> ELSE <<>>)

\* The query_insert calls an operation makes on its route, in their order.
InsertsOf(op, r) ==
    CASE op = "list_keys" -> ListKeysInserts(r)
      [] op = "get_key" -> <<<<Chars("keyId"), Chars(r.key_id)>>>>
      [] op = "get_api" -> <<<<Chars("apiId"), Chars(r.api_id)>>>>
      [] OTHER -> <<>>

\* The payload an operation hands to fetch!.
PayloadOf(op, r) ==
    IF op \in {"get_key", "get_api", "list_keys"} THEN None ELSE Some(r)

\* The function an operation hands the HttpResult to, and the type it asks for.
ParseOf(op) ==
    CASE op \in {"revoke_key", "update_key"} -> [fn |-> "parse_empty_response", T |-> "()"]
      [] op = "create_key" -> [fn |-> "parse_response", T |-> "CreateKeyResponse"]
      [] op = "verify_key" -> [fn |-> "parse_response", T |-> "VerifyKeyResponse"]
      [] op = "get_key" -> [fn |-> "parse_response", T |-> "ApiKey"]
      [] op = "update_remaining" -> [fn |-> "parse_response", T |-> "UpdateRemainingResponse"]
      [] op = "list_keys" -> [fn |-> "parse_response", T |-> "ListKeysResponse"]
      [] op = "get_api" -> [fn |-> "parse_response", T |-> "GetApiResponse"]

\* A route kept in one place for all the calls: the route of the first task
\* that holds one.
SharedRoute(ts, i) ==
    LET holders == {j \in DOMAIN ts : ts[j].pc \in {"compiled", "sent", "done"}}
    IN  ts[CHOOSE j \in holders : \A k \in holders : j <= k].route

\* The route a call hands to fetch!: the local variable of the call.
OwnRoute(ts, i) == ts[i].route

\* No route compiled yet.
RouteIdle ==
    /\ compiled = <<>>
    /\ uriLog = <<>>
    /\ queryLog = <<>>
    /\ ret = NoRet

Init ==
    /\ route \in Routes
    /\ RouteIdle
    /\ SerIdle
    /\ ReqIdle
    /\ RespIdle
    /\ ClientIdle
    /\ ConcIdle

Next ==
    \/ \E b \in Bindings : Compile(b)
    \/ \E b \in Bindings, param \in UriValues : UriInsert(b, param)
    \/ \E b \in Bindings, name \in QueryNames, value \in QueryValues :
            QueryInsert(b, name, value)
    \/ \E b \in Bindings : BuildQuery(b)

Spec == Init /\ [][Next]_vars

\* ------------------------------------------------------------------------
\* Calls on tri-state values and their serialization
\* ------------------------------------------------------------------------

\* UndefinedOr::from(o)
Convert(o) ==
    /\ conv' = [call |-> "from", arg |-> o, to |-> FromOption(o)]
    /\ UNCHANGED <<t, out, exceptSer>>

\* Default::default()
TakeDefault ==
    /\ conv' = [call |-> "default", arg |-> None, to |-> UndefinedOrDefault]
    /\ UNCHANGED <<t, out, exceptSer>>

\* serde_json::to_string(&t)
SerializeStruct ==
    /\ out' = [call |-> "struct", name |-> "", res |-> SerializeTestStruct(t)]
    /\ UNCHANGED <<t, conv, exceptSer>>

\* serde_json::to_string(&t.f): the field itself, no container around it
SerializeField(f) ==
    /\ out' = [call |-> "field", name |-> f, res |-> SerializeUndefinedOr(t[f])]
    /\ UNCHANGED <<t, conv, exceptSer>>

SerInit ==
    /\ t \in [{"a", "b", "c", "d"} -> TriStates]
    /\ conv = NoConv
    /\ out = NoOut
    /\ route = CREATE_KEY
    /\ RouteIdle
    /\ ReqIdle
    /\ RespIdle
    /\ ClientIdle
    /\ ConcIdle

SerNext ==
    \/ \E o \in Options : Convert(o)
    \/ TakeDefault
    \/ SerializeStruct
    \/ \E f \in Range(TestFields) : SerializeField(f)

SerSpec == SerInit /\ [][SerNext]_vars

\* ------------------------------------------------------------------------
\* Calls on the request builders
\* ------------------------------------------------------------------------

\* UpdateKeyRequest::new(id)
NewUpdateKeyRequest(id) ==
    /\ proc = "running"
    /\ req.kind = "none"
    /\ req' = UpdateKeyRequestNew(id)
    /\ reqArg' = id
    /\ UNCHANGED <<lastSet, proc, body, exceptReq>>

\* CreateKeyRequest::new(id)
NewCreateKeyRequest(id) ==
    /\ proc = "running"
    /\ req.kind = "none"
    /\ req' = CreateKeyRequestNew(id)
    /\ reqArg' = id
    /\ UNCHANGED <<lastSet, proc, body, exceptReq>>

\* req.set_f(o) on an UpdateKeyRequest
UpdateSetter(f, o) ==
    /\ proc = "running"
    /\ req.kind = "update"
    /\ SetterCalls < MaxSetterCalls
    /\ req' = UpdateSet(f, req, o)
    /\ lastSet' = [lastSet EXCEPT ![f] = [n |-> @.n + 1, arg |-> o]]
    /\ UNCHANGED <<reqArg, proc, body, exceptReq>>

\* req.set_f(x) on a CreateKeyRequest, f not expires
CreateSetter(f, x) ==
    /\ proc = "running"
    /\ req.kind = "create"
    /\ SetterCalls < MaxSetterCalls
    /\ req' = CreateSet(f, req, x)
    /\ lastSet' = [lastSet EXCEPT ![f] = [n |-> @.n + 1, arg |-> x]]
    /\ UNCHANGED <<reqArg, proc, body, exceptReq>>

\* req.set_expires(expires) on a CreateKeyRequest, the clock reading now;
\* the call takes the request by value, so a call that panics drops it.
CreateSetterExpires(expires, now, overflowChecks) ==
    /\ proc = "running"
    /\ req.kind = "create"
    /\ SetterCalls < MaxSetterCalls
    /\ LET r == CreateSetExpires(req, expires, now, overflowChecks)
       IN  IF r.panicked
           THEN /\ proc' = "panicked"
                /\ req' = [kind |-> "none"]
                /\ UNCHANGED lastSet
           ELSE /\ req' = r.req
                /\ lastSet' = [lastSet EXCEPT !["expires"] =
                                [n |-> @.n + 1, arg |-> [expires |-> expires, now |-> now]]]
                /\ UNCHANGED proc
    /\ UNCHANGED <<reqArg, body, exceptReq>>

\* req.set_expires(expires) on a CreateKeyRequest, the clock being before
\* the epoch: the process exits.
CreateSetterExpiresNoClock ==
    /\ proc = "running"
    /\ req.kind = "create"
    /\ SetterCalls < MaxSetterCalls
    /\ proc' = "exited"
    /\ req' = [kind |-> "none"]
    /\ UNCHANGED <<reqArg, lastSet, body, exceptReq>>

\* ListKeysRequest::new(id)
NewListKeysRequest(id) ==
    /\ proc = "running"
    /\ req.kind = "none"
    /\ req' = ListKeysRequestNew(id)
    /\ reqArg' = id
    /\ UNCHANGED <<lastSet, proc, body, exceptReq>>

\* req.set_f(x) on a ListKeysRequest
ListSetter(f, x) ==
    /\ proc = "running"
    /\ req.kind = "list"
    /\ SetterCalls < MaxSetterCalls
    /\ req' = ListSet(f, req, x)
    /\ lastSet' = [lastSet EXCEPT ![f] = [n |-> @.n + 1, arg |-> x]]
    /\ UNCHANGED <<reqArg, proc, body, exceptReq>>

\* The request given to the client as the payload of a call: fetch takes it
\* by value and RequestBuilder::json writes it as the JSON body.
SerializeBody ==
    /\ proc = "running"
    /\ req.kind \in {"create", "update"}
    /\ body' = [call |-> "json",
                res |-> IF req.kind = "create" THEN SerializeCreateKeyRequest(req)
                        ELSE SerializeUpdateKeyRequest(req)]
    /\ proc' = "done"
    /\ UNCHANGED <<req, reqArg, lastSet, exceptReq>>

ReqInit ==
    /\ ReqIdle
    /\ SerIdle
    /\ route = CREATE_KEY
    /\ RouteIdle
    /\ RespIdle
    /\ ClientIdle
    /\ ConcIdle

ReqNext ==
    \/ \E id \in Ids : NewUpdateKeyRequest(id)
    \/ \E id \in Ids : NewCreateKeyRequest(id)
    \/ \E f \in Range(UpdateFields) : \E o \in OptionsOf(FieldValues(f)) : UpdateSetter(f, o)
    \/ \E f \in Range(CreateFields) \ {"expires"} : \E x \in FieldValues(f) : CreateSetter(f, x)
    \/ \E expires \in ExpiresValues, now \in Nows, overflowChecks \in BOOLEAN :
            CreateSetterExpires(expires, now, overflowChecks)
    \/ CreateSetterExpiresNoClock
    \/ \E id \in Ids : NewListKeysRequest(id)
    \/ \E f \in Range(ListFields) : \E x \in FieldValues(f) : ListSetter(f, x)
    \/ SerializeBody

ReqSpec == ReqInit /\ [][ReqNext]_vars

\* ------------------------------------------------------------------------
\* Calls on responses
\* ------------------------------------------------------------------------

\* parse_response::<expect>(resp)
ParseResponseCall ==
    /\ parsed.call = "none"
    /\ parsed' = [call |-> "parse_response"] @@ ParseResponse(expect, resp)
    /\ UNCHANGED <<resp, expect, exceptResp>>

\* parse_empty_response(resp)
ParseEmptyResponseCall ==
    /\ parsed.call = "none"
    /\ expect = "()"
    /\ parsed' = [call |-> "parse_empty_response"] @@ ParseEmptyResponse(resp)
    /\ UNCHANGED <<resp, expect, exceptResp>>

RespInit ==
    /\ resp \in HttpResults
    /\ expect \in ResponseTypes
    /\ parsed = NoParsed
    /\ route = CREATE_KEY
    /\ RouteIdle
    /\ SerIdle
    /\ ReqIdle
    /\ ClientIdle
    /\ ConcIdle

RespNext ==
    \/ ParseResponseCall
    \/ ParseEmptyResponseCall

RespSpec == RespInit /\ [][RespNext]_vars

\* ---------------------------------------------------------------------
\* The calls on the client.

\* Client::new(key)
ClientNew(key) ==
    /\ cproc = "running"
    /\ ~client.made
    /\ LET h == GenerateHeaders(key)
       IN  IF h.ok
           THEN /\ client' = HttpServiceNew(h.headers)
                /\ cproc' = cproc
           ELSE /\ cproc' = "exited"
                /\ client' = client
    /\ rootKey' = key
    /\ call' = Called("new", key, <<>>, <<>>, ResultOk(Unit))
    /\ UNCHANGED <<nCalls, exceptClient>>

\* Client::with_url(key, url)
ClientWithUrl(key, url) ==
    /\ cproc = "running"
    /\ ~client.made
    /\ LET h == GenerateHeaders(key)
       IN  IF h.ok
           THEN /\ client' = HttpServiceWithUrl(h.headers, url)
                /\ cproc' = cproc
           ELSE /\ cproc' = "exited"
                /\ client' = client
    /\ rootKey' = key
    /\ call' = Called("with_url", [key |-> key, url |-> url], <<>>, <<>>, ResultOk(Unit))
    /\ UNCHANGED <<nCalls, exceptClient>>

\* Client::set_key(key)
SetKey(key) ==
    /\ cproc = "running"
    /\ client.made
    /\ nCalls.ops + nCalls.sets < MaxClientCalls
    /\ client' = HttpServiceSetKey(client, key)
    /\ rootKey' = key
    /\ call' = Called("set_key", key, <<>>, <<>>, ResultOk(Unit))
    /\ nCalls' = [nCalls EXCEPT !.sets = @ + 1]
    /\ UNCHANGED <<cproc, exceptClient>>

\* Client::set_url(url)
SetUrl(url) ==
    /\ cproc = "running"
    /\ client.made
    /\ nCalls.ops + nCalls.sets < MaxClientCalls
    /\ client' = HttpServiceSetUrl(client, url)
    /\ call' = Called("set_url", url, <<>>, <<>>, ResultOk(Unit))
    /\ nCalls' = [nCalls EXCEPT !.sets = @ + 1]
    /\ UNCHANGED <<rootKey, cproc, exceptClient>>

\* An operation of the client: the service fetches the route of the plan
\* and hands the result to parse_response or to parse_empty_response.
Operation(op, r, plan, result) ==
    /\ cproc = "running"
    /\ client.made
    /\ nCalls.ops + nCalls.sets < MaxClientCalls
    /\ \E f \in {Fetch(client, plan.route, plan.payload, result)} :
        \E d \in {IF plan.parse = "parse_response" THEN ParseResponse(plan.T, f.result)
                  ELSE ParseEmptyResponse(f.result)} :
            /\ call' = Called(op, r, f.requests,
                              <<[fn |-> plan.parse, T |-> plan.T,
                                 text_calls |-> d.text_calls,
                                 from_str_calls |-> d.from_str_calls]>>,
                              d.ret)
            /\ nCalls' = [nCalls EXCEPT !.ops = @ + 1,
                                        !.sends = @ + Len(f.requests)]
    /\ UNCHANGED <<client, rootKey, cproc, exceptClient>>

\* Client::create_key(req)
CreateKey(r, result) == Operation("create_key", r, CreateKeyPlan(r), result)

\* Client::verify_key(req)
VerifyKey(r, result) == Operation("verify_key", r, VerifyKeyPlan(r), result)

\* Client::revoke_key(req)
RevokeKey(r, result) == Operation("revoke_key", r, RevokeKeyPlan(r), result)

\* Client::update_key(req)
UpdateKey(r, result) == Operation("update_key", r, UpdateKeyPlan(r), result)

\* Client::get_key(req)
GetKey(r, result) == Operation("get_key", r, GetKeyPlan(r), result)

\* Client::update_remaining(req)
UpdateRemaining(r, result) ==
    Operation("update_remaining", r, UpdateRemainingPlan(r), result)

\* Client::list_keys(req)
ListKeys(r, result) == Operation("list_keys", r, ListKeysPlan(r), result)

\* Client::get_api(req)
GetApi(r, result) == Operation("get_api", r, GetApiPlan(r), result)

ClientInit ==
    /\ route = CREATE_KEY
    /\ RouteIdle
    /\ SerIdle
    /\ ReqIdle
    /\ RespIdle
    /\ ClientIdle
    /\ ConcIdle

ClientNext ==
    \/ \E key \in RootKeys : ClientNew(key)
    \/ \E key \in {KeyGhj, KeyBroken} : ClientWithUrl(key, LocalUrl)
    \/ \E key \in RootKeys : SetKey(key)
    \/ \E url \in Urls : SetUrl(url)
    \/ \E result \in ClientResults :
        \/ CreateKey(CreateKeyRequestNew("test"), result)
        \/ VerifyKey(VerifyKeyRequestNew("test_key", "test"), result)
        \/ RevokeKey(RevokeKeyRequestNew("test_123"), result)
        \/ \E r \in UpdateKeyRequests : UpdateKey(r, result)
        \/ \E id \in Ids : GetKey(GetKeyRequestNew(id), result)
        \/ \E op \in UpdateOps :
            UpdateRemaining(UpdateRemainingRequestNew("test_123", Some(42), op), result)
        \/ \E r \in ListKeysRequests : ListKeys(r, result)
        \/ GetApi(GetApiRequestNew("test"), result)

ClientSpec == ClientInit /\ [][ClientNext]_vars

\* ---------------------------------------------------------------------
\* The steps of the operations in flight.

\* A task calls an operation of the client.
StartCall(i, op, r) ==
    /\ tasks[i].pc = "idle"
    /\ tasks' = [tasks EXCEPT ![i] = [pc |-> "called", op |-> op, arg |-> r]]
    /\ UNCHANGED exceptConc

\* let route = routes::X.compile()
CompileStep(i) ==
    /\ tasks[i].pc = "called"
    /\ tasks' = [tasks EXCEPT ![i] =
                    [pc |-> "compiled", op |-> @.op, arg |-> @.arg,
                     route |-> CompiledRouteNew(RouteOf(@.op)), inserted |-> 0]]
    /\ UNCHANGED exceptConc

\* route.query_insert(name, value), the next one of the operation
InsertStep(i) ==
    /\ tasks[i].pc = "compiled"
    /\ LET inserts == InsertsOf(tasks[i].op, tasks[i].arg)
           k == tasks[i].inserted + 1
       IN  /\ k <= Len(inserts)
           /\ tasks' = [tasks EXCEPT
                          ![i].route = QueryInsertRoute(@, inserts[k][1], inserts[k][2]),
                          ![i].inserted = k]
    /\ UNCHANGED exceptConc

\* fetch!(http, route, payload): the request is built from the route and
\* the client and sent; the call waits for what the network gives.
SendStep(i, result) ==
    /\ tasks[i].pc = "compiled"
    /\ tasks[i].inserted = Len(InsertsOf(tasks[i].op, tasks[i].arg))
    /\ \E f \in {Fetch(client, OwnRoute(tasks, i),
                       PayloadOf(tasks[i].op, tasks[i].arg), result)} :
        tasks' = [tasks EXCEPT ![i] =
                    [pc |-> "sent", op |-> @.op, arg |-> @.arg, route |-> @.route,
                     requests |-> f.requests, result |-> f.result]]
    /\ UNCHANGED exceptConc

\* parse_response(result) or parse_empty_response(result): the call returns.
ParseStep(i) ==
    /\ tasks[i].pc = "sent"
    /\ \E p \in {ParseOf(tasks[i].op)} :
        \E d \in {IF p.fn = "parse_response" THEN ParseResponse(p.T, tasks[i].result)
                  ELSE ParseEmptyResponse(tasks[i].result)} :
            tasks' = [tasks EXCEPT ![i] =
                        [pc |-> "done", op |-> @.op, arg |-> @.arg, route |-> @.route,
                         requests |-> @.requests, result |-> @.result, ret |-> d.ret]]
    /\ UNCHANGED exceptConc

\* The calls made at once.
ConcCalls ==
    {[op |-> "list_keys", arg |-> r] : r \in ListKeysRequests}
        \cup {[op |-> "get_api", arg |-> GetApiRequestNew(id)] : id \in Ids}
        \cup {[op |-> "verify_key", arg |-> VerifyKeyRequestNew("test_key", "test")]}

ConcResults ==
    {HttpResultErr("operation timed out"),
     HttpResultOk(Text(ErrorBody("NOT_FOUND", "key not found")))}

\* A client made by Client::new, shared by the tasks.
ConcInit ==
    /\ route = CREATE_KEY
    /\ RouteIdle
    /\ SerIdle
    /\ ReqIdle
    /\ RespIdle
    /\ client = HttpServiceNew(GenerateHeaders(KeyGhj).headers)
    /\ rootKey = KeyGhj
    /\ call = Called("new", KeyGhj, <<>>, <<>>, ResultOk(Unit))
    /\ nCalls = NoCalls
    /\ cproc = "running"
    /\ ConcIdle

ConcNext ==
    \E i \in Tasks :
        \/ \E c \in ConcCalls : StartCall(i, c.op, c.arg)
        \/ CompileStep(i)
        \/ InsertStep(i)
        \/ \E result \in ConcResults : SendStep(i, result)
        \/ ParseStep(i)

ConcSpec == ConcInit /\ [][ConcNext]_vars

\* ------------------------------------------------------------------------
\* Route compiler: properties
\* ------------------------------------------------------------------------

\* The template tpl with its placeholders replaced in one pass, left to right,
\* by the values vs; placeholders beyond the values are kept as they are.
RECURSIVE Subst(_, _)
Subst(tpl, vs) ==
    IF Len(tpl) = 0 THEN <<>>
    ELSE IF Len(tpl) >= 2 /\ tpl[1] = "{" /\ tpl[2] = "}"
    THEN IF Len(vs) = 0
         THEN Placeholder \o Subst(SubSeq(tpl, 3, Len(tpl)), vs)
         ELSE Head(vs) \o Subst(SubSeq(tpl, 3, Len(tpl)), Tail(vs))
    ELSE <<Head(tpl)>> \o Subst(Tail(tpl), vs)

\* The number of placeholders of the template tpl.
RECURSIVE Placeholders(_)
Placeholders(tpl) ==
    IF Len(tpl) < 2 THEN 0
    ELSE IF tpl[1] = "{" /\ tpl[2] = "}" THEN 1 + Placeholders(SubSeq(tpl, 3, Len(tpl)))
    ELSE Placeholders(Tail(tpl))

\* The string v holds the token "{}".
HoldsToken(v) == \E i \in 1..(Len(v) - 1) : v[i] = "{" /\ v[i + 1] = "}"

NoTokens(vs) == \A i \in 1..Len(vs) : ~HoldsToken(vs[i])

\* Every brace of the template tpl belongs to a placeholder, and every
\* placeholder has a character that is no brace, or an end of the template,
\* on either side.
SetOff(tpl) ==
    \A i \in 1..Len(tpl) :
        /\ tpl[i] = "{" =>
            /\ i < Len(tpl) /\ tpl[i + 1] = "}"
            /\ i > 1 => tpl[i - 1] \notin {"{", "}"}
        /\ tpl[i] = "}" =>
            /\ i > 1 /\ tpl[i - 1] = "{"
            /\ i < Len(tpl) => tpl[i + 1] \notin {"{", "}"}

\* C1 as stated: for any values v1..vk, k <= N, the path is the template
\* with its first k placeholders replaced by v1..vk in call order and the
\* other N-k placeholders kept.
C1_AnyValues ==
    \A b \in DOMAIN compiled :
        Len(uriLog[b]) <= Placeholders(route.uri)
            => compiled[b].uri = Subst(route.uri, uriLog[b])

\* C1 amended: on a template whose placeholders are set off by other text,
\* for values v1..vk, k <= N, none of which holds the token "{}", the path
\* is the template with its first k placeholders replaced by v1..vk in call
\* order and the other N-k placeholders kept.
C1_TokenFreeValues ==
    \A b \in DOMAIN compiled :
        (/\ SetOff(route.uri)
         /\ Len(uriLog[b]) <= Placeholders(route.uri)
         /\ NoTokens(uriLog[b]))
            => compiled[b].uri = Subst(route.uri, uriLog[b])

\* C1 witness: the documentation example, /apis/{}/keys/{} with "5" then "1".
C1_Witness ==
    /\ route = DocRoute
    /\ \E b \in DOMAIN compiled :
        /\ uriLog[b] = <<(<<"5">>), (<<"1">>)>>
        /\ compiled[b].uri =
            <<"/", "a", "p", "i", "s", "/", "5", "/", "k", "e", "y", "s", "/", "1">>

\* A step that is an uri_insert on binding b made after N or more values
\* were inserted already.
ExcessInsert(b) ==
    /\ b \in DOMAIN compiled'
    /\ Len(uriLog'[b]) = Len(uriLog[b]) + 1
    /\ Len(uriLog[b]) >= Placeholders(route.uri)

\* C2 as stated: once N values were inserted, a further uri_insert, for any
\* value and any values inserted before, leaves the path unchanged and
\* returns normally.
C2_AnyValues ==
    [][\A b \in DOMAIN compiled :
            ExcessInsert(b)
                => /\ compiled'[b].uri = compiled[b].uri
                   /\ ret' = [kind |-> "self", binding |-> b, value |-> <<>>]]_vars

\* C2 amended: on a template whose placeholders are set off by other text,
\* once N values none of which holds the token "{}" were inserted, a further
\* uri_insert of any value leaves the path unchanged and returns normally.
C2_TokenFreeValues ==
    [][\A b \in DOMAIN compiled :
            (ExcessInsert(b) /\ SetOff(route.uri) /\ NoTokens(uriLog[b]))
                => /\ compiled'[b].uri = compiled[b].uri
                   /\ ret' = [kind |-> "self", binding |-> b, value |-> <<>>]]_vars

\* C2 witness: /keys/{} after "5" and then the excess value "{}".
C2_Witness ==
    /\ route = DELETE_KEY
    /\ \E b \in DOMAIN compiled :
        /\ uriLog[b] = <<(<<"5">>), Placeholder>>
        /\ compiled[b].uri = <<"/", "k", "e", "y", "s", "/", "5">>
        /\ ret = [kind |-> "self", binding |-> b, value |-> <<>>]

\* ?n1=v1&...&nk=vk, built from the left; the empty string when k = 0.
RECURSIVE ExpectedQuery(_)
ExpectedQuery(ps) ==
    LET k == Len(ps)
    IN  IF k = 0 THEN <<>>
        ELSE IF k = 1 THEN <<"?">> \o ps[1][1] \o <<"=">> \o ps[1][2]
        ELSE ExpectedQuery(SubSeq(ps, 1, k - 1))
                \o <<"&">> \o ps[k][1] \o <<"=">> \o ps[k][2]

\* C3: build_query returns "" after no query_insert and otherwise
\* ?n1=v1&...&nk=vk for the pairs inserted, in insertion order, repeated
\* names kept.
C3_BuildQuery ==
    ret.kind = "query" => ret.value = ExpectedQuery(queryLog[ret.binding])

\* C3 witness: a query built from two pairs of the same name.
C3_Witness ==
    /\ ret.kind = "query"
    /\ LET ps == queryLog[ret.binding]
       IN  /\ Len(ps) >= 2
           /\ ps[1][1] = ps[2][1]
           /\ ps[1][2] # ps[2][2]
    /\ Len(ret.value) > 0

\* C4: every compile returns a route with no query parameters, the template
\* as it is and the Route's method, whatever was compiled and mutated
\* before; a call on one compiled route changes no other compiled route and
\* never the static Route.
C4_CompileIndependent ==
    [][/\ route' = route
       /\ ret'.kind = "compiled"
            => compiled'[ret'.binding] =
                [method |-> route.method, params |-> <<>>, uri |-> route.uri]
       /\ \A b \in DOMAIN compiled :
            b # ret'.binding => (b \in DOMAIN compiled' /\ compiled'[b] = compiled[b])]_vars

\* C4 witness: a route compiled while another compiled route of the same
\* Route holds an inserted path value and a query parameter.
C4_Witness ==
    /\ ret.kind = "compiled"
    /\ \E b \in DOMAIN compiled :
        /\ b # ret.binding
        /\ compiled[b].uri # route.uri
        /\ Len(compiled[b].params) > 0
    /\ compiled[ret.binding].uri = route.uri
    /\ compiled[ret.binding].params = <<>>

\* ------------------------------------------------------------------------
\* Tri-state field: properties
\* ------------------------------------------------------------------------

RECURSIVE JoinText(_, _)
JoinText(texts, sep) ==
    IF Len(texts) = 0 THEN ""
    ELSE IF Len(texts) = 1 THEN texts[1]
    ELSE JoinText(SubSeq(texts, 1, Len(texts) - 1), sep) \o sep \o texts[Len(texts)]

\* "k":null for a Null field k of the TestStruct, "k":x for a Value(x) one.
ExpectedMember(k) ==
    "\"" \o k \o "\":" \o (IF t[k] = Null THEN "null" ELSE SerializeUnsigned(t[k].v))

\* C5: the JSON text of a record whose tri-state fields all carry the skip
\* rule holds exactly the fields that are not Undefined, in declaration
\* order, a Null field as null and a Value(x) field as x; all Undefined
\* gives {}.
C5_SkipUndefined ==
    out.call = "struct"
        => LET present == SelectSeq(TestFields, LAMBDA k : t[k] # Undefined)
               members == [i \in 1..Len(present) |-> ExpectedMember(present[i])]
           IN  out.res = Ok("{" \o JoinText(members, ",") \o "}")

\* C5 witness: the record of the test serialize_mixed and its text.
C5_Witness ==
    /\ t = [a |-> Value(69), b |-> Value(420), c |-> Null, d |-> Undefined]
    /\ out.call = "struct"
    /\ out.res = Ok("{\"a\":69,\"b\":420,\"c\":null}")

\* C6: serializing a tri-state field itself while it is Undefined fails with
\* a serialization error and writes nothing.
C6_DirectUndefinedFails ==
    (out.call = "field" /\ t[out.name] = Undefined)
        => out.res = Err("Undefined should never be serialized.")

\* C6 witness: an Undefined field was serialized directly and the call failed.
C6_Witness ==
    /\ out.call = "field"
    /\ t[out.name] = Undefined
    /\ ~out.res.ok

\* C7: an optional converts to Value(x) exactly when it held x and to Null
\* exactly when it was empty, never to Undefined.
C7_FromOption ==
    conv.call = "from"
        => /\ \A x \in U32Values : (conv.to = Value(x)) <=> (conv.arg = Some(x))
           /\ (conv.to = Null) <=> (conv.arg = None)
           /\ conv.to # Undefined

\* C7 witness: Some(69) was converted, to Value(69).
C7_Witness ==
    /\ conv.call = "from"
    /\ conv.arg = Some(69)
    /\ conv.to = Value(69)

\* ------------------------------------------------------------------------
\* Request builders: properties
\* ------------------------------------------------------------------------

\* The tri-state fields of the request under construction.
ReqFields ==
    IF req.kind = "update" THEN Range(UpdateFields)
    ELSE IF req.kind = "create" THEN Range(CreateFields)
    ELSE {}

\* C8: the default tri-state value is Undefined, and a request just made by
\* new holds the given id and has every tri-state field Undefined.
C8_FreshRequest ==
    /\ UndefinedOrDefault = Undefined
    /\ (req.kind = "update" /\ SetterCalls = 0)
            => (req.key_id = reqArg /\ \A f \in ReqFields : req[f] = Undefined)
    /\ (req.kind = "create" /\ SetterCalls = 0)
            => (req.api_id = reqArg /\ \A f \in ReqFields : req[f] = Undefined)

\* C8 witness: UpdateKeyRequest::new("test_123") before any setter call.
C8_Witness ==
    /\ req.kind = "update"
    /\ SetterCalls = 0
    /\ req.key_id = "test_123"
    /\ req.owner_id = Undefined
    /\ req.refill = Undefined

\* C9: each optional field of an UpdateKeyRequest whose setter was called
\* is Value(v) when the last call gave Some(v) and Null when it gave None.
C9_UpdateSetters ==
    req.kind = "update"
        => \A f \in ReqFields :
            lastSet[f].n > 0
                => req[f] = (IF lastSet[f].arg.some
                             THEN [tag |-> "Value", v |-> lastSet[f].arg.v]
                             ELSE [tag |-> "Null"])

\* C9 witness: one setter called twice, last with None, and another called
\* once with Some(v).
C9_Witness ==
    /\ req.kind = "update"
    /\ \E f, g \in ReqFields :
        /\ lastSet[f].n = 2
        /\ lastSet[f].arg = None
        /\ req[f] = Null
        /\ lastSet[g].n = 1
        /\ lastSet[g].arg.some
        /\ req[g].tag = "Value"

\* C10: a tri-state field of a request is Undefined exactly while no setter
\* of the field has been called.
C10_UndefinedUntilSet ==
    \A f \in ReqFields : (req[f] = Undefined) <=> (lastSet[f].n = 0)

\* C10 witness: an UpdateKeyRequest with a field set to None, which is Null,
\* beside a field never set, which is Undefined.
C10_Witness ==
    /\ req.kind = "update"
    /\ \E f, g \in ReqFields :
        /\ lastSet[f].n > 0
        /\ lastSet[f].arg = None
        /\ req[f] = Null
        /\ lastSet[g].n = 0
        /\ req[g] = Undefined

\* The create setter of field f on the request r: set_expires with the
\* argument x.expires and the clock reading x.now, any other setter with
\* the value x.
CreateApply(f, r, x) ==
    IF f = "expires" THEN CreateSetExpires(r, x.expires, x.now, FALSE).req
    ELSE CreateSet(f, r, x)

CreateArgs(f) ==
    IF f = "expires" THEN [expires : ExpiresValues, now : Nows] ELSE FieldValues(f)

\* C11: on a request still under construction, two setter calls on different
\* fields give the same request in either order, and a setter leaves every
\* field but its own as it was; two calls on one field with different
\* arguments give requests that differ with the order.
C11_SettersCommute ==
    proc = "running" =>
    /\ req.kind = "update" =>
        \A f \in Range(UpdateFields) : \A o \in OptionsOf(FieldValues(f)) :
            LET rf == UpdateSet(f, req, o)
            IN  /\ \A h \in DOMAIN req \ {f} : rf[h] = req[h]
                /\ \A g \in Range(UpdateFields) : \A p \in OptionsOf(FieldValues(g)) :
                    LET fg == UpdateSet(g, rf, p)
                        gf == UpdateSet(f, UpdateSet(g, req, p), o)
                    IN  /\ f # g => fg = gf
                        /\ (f = g /\ o # p) => fg # gf
    /\ req.kind = "create" =>
        \A f \in Range(CreateFields) : \A x \in CreateArgs(f) :
            LET rf == CreateApply(f, req, x)
            IN  /\ \A h \in DOMAIN req \ {f} : rf[h] = req[h]
                /\ \A g \in Range(CreateFields) : \A y \in CreateArgs(g) :
                    LET fg == CreateApply(g, rf, y)
                        gf == CreateApply(f, CreateApply(g, req, y), x)
                    IN  /\ f # g => fg = gf
                        /\ (f = g /\ x # y) => fg # gf
    /\ req.kind = "list" =>
        \A f \in Range(ListFields) : \A x \in FieldValues(f) :
            LET rf == ListSet(f, req, x)
            IN  /\ \A h \in DOMAIN req \ {f} : rf[h] = req[h]
                /\ \A g \in Range(ListFields) : \A y \in FieldValues(g) :
                    LET fg == ListSet(g, rf, y)
                        gf == ListSet(f, ListSet(g, req, y), x)
                    IN  /\ f # g => fg = gf
                        /\ (f = g /\ x # y) => fg # gf

\* C11 witness: a CreateKeyRequest on which the setters of two different
\* fields have been called, both values in place.
C11_Witness ==
    /\ req.kind = "create"
    /\ \E f, g \in Range(CreateFields) :
        /\ f # g
        /\ lastSet[f].n = 1
        /\ lastSet[g].n = 1
        /\ req[f].tag = "Value"
        /\ req[g].tag = "Value"

\* The fields of the request under construction in declaration order.
ReqFieldSeq == IF req.kind = "update" THEN UpdateFields ELSE CreateFields

\* The setter of the field f has been called.
IsSet(f) == lastSet[f].n > 0

\* ,"k":v for every field of fields from the i-th on whose setter has been
\* called.
RECURSIVE ExpectedMembersFrom(_, _)
ExpectedMembersFrom(fields, i) ==
    IF i > Len(fields) THEN ""
    ELSE (IF IsSet(fields[i])
          THEN "," \o Member(CamelCase(fields[i]),
                    IF req[fields[i]] = Null THEN "null"
                    ELSE SerializeValue(fields[i], req[fields[i]].v))
          ELSE "") \o ExpectedMembersFrom(fields, i + 1)

\* C12: the JSON encoding of a CreateKeyRequest or UpdateKeyRequest made by
\* new and any setter calls succeeds; the body holds the id member and then
\* exactly the members of the fields whose setter has been called, in
\* declaration order; and no Undefined field is handed to the serializer.
C12_BodyHoldsSetFields ==
    body.call = "json" =>
        /\ body.res.ok
        /\ body.res.reached = SelectSeq(ReqFieldSeq, IsSet)
        /\ \A i \in 1..Len(body.res.reached) : req[body.res.reached[i]] # Undefined
        /\ body.res.text =
                "{" \o Member(IF req.kind = "create" THEN "apiId" ELSE "keyId",
                             SerializeStr(reqArg))
                    \o ExpectedMembersFrom(ReqFieldSeq, 1) \o "}"

\* C12 witness: the body of an UpdateKeyRequest with one field set to a
\* value, one set to None and the others never set.
C12_Witness ==
    /\ body.call = "json"
    /\ req.kind = "update"
    /\ lastSet["name"].n = 1 /\ req.name = Null
    /\ lastSet["remaining"].n = 1 /\ req.remaining = Value(420)
    /\ SetterCalls = 2
    /\ body.res = [ok |-> TRUE, reached |-> <<"name", "remaining">>,
                    text |-> "{\"keyId\":\"test_123\",\"name\":null,\"remaining\":420}"]

\* ------------------------------------------------------------------------
\* Response envelope: properties
\* ------------------------------------------------------------------------

\* The text of the response, when it was read.
BodyText == resp.text.chars

\* The response was received and its text read.
HasText == resp.result = "Ok" /\ resp.text.ok

\* C13: when the request itself failed, parse_response and
\* parse_empty_response return an HttpError with the code Unknown and the
\* text of the request's error, and neither read nor parse a body.
C13_TransportFailure ==
    (parsed.call \in {"parse_response", "parse_empty_response"} /\ resp.result = "Err")
        => /\ parsed.ret = [ok |-> FALSE, err |-> [code |-> "Unknown", message |-> resp.error]]
           /\ parsed.text_calls = 0
           /\ parsed.from_str_calls = 0

\* C13 witness: parse_empty_response on a request that timed out.
C13_Witness ==
    /\ parsed.call = "parse_empty_response"
    /\ resp = HttpResultErr("operation timed out")
    /\ parsed.ret.err = [code |-> "Unknown", message |-> "operation timed out"]

\* The variant of ErrorCode a known name of the error bodies stands for.
VariantOf(c) ==
    CASE c = "NOT_FOUND" -> "NotFound"
      [] c = "UNAUTHORIZED" -> "Unauthorized"
      [] c = "CONFLICT" -> "Conflict"

\* C14: a body of the error shape, {"error":{"code":c,"message":m}} with or
\* without further members beside code and message, c the name of a variant
\* of ErrorCode, gives Err(HttpError) with the code c and the message m
\* from parse_response for every type T and from parse_empty_response.
C14_ErrorBody ==
    (parsed.call \in {"parse_response", "parse_empty_response"} /\ HasText)
        => \A c \in KnownCodeWords, m \in MessageWords :
            BodyText \in {ErrorBody(c, m), ErrorBodyWithDocs(c, m)}
                => parsed.ret = [ok |-> FALSE, err |-> [code |-> VariantOf(c), message |-> m]]

\* C14 witness: parse_response::<CreateKeyResponse> on an error body that
\* holds nothing of a CreateKeyResponse.
C14_Witness ==
    /\ parsed.call = "parse_response"
    /\ expect = "CreateKeyResponse"
    /\ resp = HttpResultOk(Text(ErrorBodyWithDocs("UNAUTHORIZED", "unauthorized")))
    /\ parsed.ret.err = [code |-> "Unauthorized", message |-> "unauthorized"]

\* C15: a body without the member error that reads as the type T gives
\* Ok(payload) from parse_response::<T>, the payload as the body holds it.
C15_OkPayload ==
    (parsed.call = "parse_response" /\ HasText)
        => /\ (expect = "CreateKeyResponse" /\ BodyText = CreateKeyBody("key_123", "prefix_abc"))
                => /\ parsed.ret.ok
                   /\ DOMAIN parsed.ret.v = {"keyId", "key"}
                   /\ parsed.ret.v["keyId"] = "key_123"
                   /\ parsed.ret.v["key"] = "prefix_abc"
           /\ (expect = "UpdateRemainingResponse" /\ BodyText = RemainingBody)
                => /\ parsed.ret.ok
                   /\ DOMAIN parsed.ret.v = {"remaining"}
                   /\ parsed.ret.v["remaining"] = 42
           /\ (expect = "()" /\ BodyText = Chars("null"))
                => parsed.ret = [ok |-> TRUE, v |-> Unit]

\* C15 witness: parse_response::<CreateKeyResponse> on the body of a
\* created key.
C15_Witness ==
    /\ parsed.call = "parse_response"
    /\ expect = "CreateKeyResponse"
    /\ resp = HttpResultOk(Text(CreateKeyBody("key_123", "prefix_abc")))
    /\ parsed.ret.ok
    /\ parsed.ret.v["keyId"] = "key_123"

\* Texts that are no JSON value.
NoJson == {<<>>, Chars("ok"), Chars("server error")}

\* C16: parse_response returns Err(HttpError) with the code Unknown and the
\* text of the error when the text of the response could not be read, and
\* when it reads neither as the error shape nor as T; a text that is no
\* JSON value and a JSON value of another shape than T are such texts.
C16_ParseFailure ==
    parsed.call = "parse_response"
        => /\ (resp.result = "Ok" /\ ~resp.text.ok)
                => parsed.ret = [ok |-> FALSE,
                                 err |-> [code |-> "Unknown", message |-> resp.text.text]]
           /\ HasText =>
                LET r == FromStrWrapped(expect, BodyText)
                IN  /\ ~r.ok => parsed.ret = [ok |-> FALSE,
                                              err |-> [code |-> "Unknown", message |-> r.text]]
                    /\ BodyText \in NoJson => ~r.ok
                    /\ (BodyText = <<"{", "}">>) => ~r.ok
                    /\ (BodyText = RemainingBody /\ expect # "UpdateRemainingResponse") => ~r.ok

\* C16 witness: parse_response::<CreateKeyResponse> on a body that holds
\* one of the two fields.
C16_Witness ==
    /\ parsed.call = "parse_response"
    /\ expect = "CreateKeyResponse"
    /\ resp = HttpResultOk(Text(Object1(Pair("keyId", Quoted("key_123")))))
    /\ parsed.ret.err = [code |-> "Unknown",
                         message |-> "data did not match any variant of enum Wrapped"]

\* C17: when the text does not read as Wrapped<()>, parse_empty_response
\* returns Ok(()) if the text does not hold the substring error, and
\* otherwise an HttpError with the code Unknown and the text of the parse
\* error; every text but null and the error bodies is such a text.
C17_EmptyHeuristic ==
    (parsed.call = "parse_empty_response" /\ HasText)
        => LET r == FromStrWrapped("()", BodyText)
           IN  /\ (BodyText \in (NearErrorBodies \cup PlainBodies) \ {Chars("null")}) => ~r.ok
               /\ ~r.ok =>
                    /\ parsed.ret.ok <=> ~Contains(BodyText, <<"e", "r", "r", "o", "r">>)
                    /\ parsed.ret.ok => parsed.ret.v = Unit
                    /\ ~parsed.ret.ok
                        => parsed.ret.err = [code |-> "Unknown", message |-> r.text]

\* C17 witness: parse_empty_response on an empty text, which is success.
C17_Witness ==
    /\ parsed.call = "parse_empty_response"
    /\ resp = HttpResultOk(Text(<<>>))
    /\ parsed.ret = [ok |-> TRUE, v |-> Unit]

\* C18: an error body whose code is the name of no variant of ErrorCode
\* gives an HttpError with the code Unknown and the message of the body.
C18_UnknownCode ==
    (parsed.call \in {"parse_response", "parse_empty_response"} /\ HasText)
        => \A c \in UnknownCodeWords, m \in MessageWords :
            BodyText = ErrorBody(c, m)
                => parsed.ret = [ok |-> FALSE, err |-> [code |-> "Unknown", message |-> m]]

\* C18 witness: parse_response on an error body with the code RATELIMITED,
\* which ErrorCode spells RATE_LIMITED.
C18_Witness ==
    /\ parsed.call = "parse_response"
    /\ resp = HttpResultOk(Text(ErrorBody("RATELIMITED", "key not found")))
    /\ parsed.ret.err = [code |-> "Unknown", message |-> "key not found"]

\* ---------------------------------------------------------------------
\* The client.

\* C19: each operation of the client (create_key, verify_key, revoke_key,
\* update_key, get_key, update_remaining, list_keys, get_api) sends exactly
\* one request and makes exactly one call of a parse function, which reads
\* the text at most once and parses it at most once, whatever the network
\* gave; over all the calls on a client, the requests sent are as many as
\* the operations called.
C19_OneSendOneDecode ==
    /\ nCalls.sends = nCalls.ops
    /\ call.op \in Operations =>
        /\ Len(call.requests) = 1
        /\ Len(call.decodes) = 1
        /\ call.decodes[1].text_calls <= 1
        /\ call.decodes[1].from_str_calls <= 1

\* The same operation called again after the request failed.
C19_Witness ==
    /\ nCalls.ops = MaxClientCalls
    /\ call.op = "get_key"
    /\ ~call.ret.ok
    /\ call.decodes[1].text_calls = 0

\* C20, as the text has it: every request sent holds Accept:
\* application/json and Authorization: Bearer <rootKey>, where rootKey is
\* the key of the constructor or of the most recent set_key; stated for the
\* keys that are header values.
C20_BearerRootKey ==
    \A i \in 1..Len(call.requests) :
        /\ call.requests[i].headers.Accept = ApplicationJson
        /\ HeaderValueFromStr(rootKey).ok =>
            call.requests[i].headers.Authorization = Bearer \o rootKey

\* The plan of operation op for the request r.
PlanOf(op, r) ==
    CASE op = "create_key" -> CreateKeyPlan(r)
      [] op = "verify_key" -> VerifyKeyPlan(r)
      [] op = "revoke_key" -> RevokeKeyPlan(r)
      [] op = "update_key" -> UpdateKeyPlan(r)
      [] op = "get_key" -> GetKeyPlan(r)
      [] op = "update_remaining" -> UpdateRemainingPlan(r)
      [] op = "list_keys" -> ListKeysPlan(r)
      [] op = "get_api" -> GetApiPlan(r)

\* C21: the url of every request is the base url of the client, then the
\* path of the compiled route, then the built query string; the base url is
\* the production url after new and the given url after with_url; set_url
\* sets the base url and changes nothing else of the client, and no other
\* call changes the base url.
C21_UrlComposition ==
    [][/\ (call'.op = "new" /\ client'.made) => client'.url = BASE_API_URL
       /\ (call'.op = "with_url" /\ client'.made) => client'.url = call'.arg.url
       /\ call'.op = "set_url" =>
            /\ client' = [client EXCEPT !.url = call'.arg]
            /\ rootKey' = rootKey
       /\ call'.op = "set_key" => client'.url = client.url
       /\ call'.op \in Operations =>
            /\ client' = client
            /\ \A i \in 1..Len(call'.requests) :
                LET r == PlanOf(call'.op, call'.arg).route
                IN  call'.requests[i].url = client.url \o r.uri \o BuildQueryRoute(r)
      ]_vars

\* A list_keys sent to the url that set_url gave.
C21_Witness ==
    /\ call.op = "list_keys"
    /\ client.url = OtherUrl
    /\ call.requests[1].url =
            OtherUrl \o ApisIdKeysUri \o <<"?">> \o Chars("apiId") \o <<"=">>
                \o Chars("test") \o <<"&">> \o Chars("limit") \o <<"=", "1", "0", "0">>

\* C22, as the text has it: the constructors with any key, set_key, set_url
\* and the operations always return to the caller, so the process of the
\* client never ends; an operation returns Ok or an HttpError.
C22_NeverAborts ==
    /\ cproc = "running"
    /\ call.op \in Operations =>
        \/ call.ret.ok
        \/ DOMAIN call.ret.err = {"code", "message"}

\* ---------------------------------------------------------------------
\* Operations in flight at once.

\* What the operation op with request r sends and returns when it runs
\* alone and the network gives result.
Alone(op, r, result) ==
    LET plan == PlanOf(op, r)
        f == Fetch(client, plan.route, plan.payload, result)
        d == IF plan.parse = "parse_response" THEN ParseResponse(plan.T, f.result)
             ELSE ParseEmptyResponse(f.result)
    IN  [requests |-> f.requests, ret |-> d.ret]

\* C23: for every interleaving of the steps of the calls in flight on one
\* client, each call sends the request and returns the result that it
\* sends and returns when it runs alone.
C23_CallsIndependent ==
    \A i \in Tasks :
        /\ tasks[i].pc \in {"sent", "done"} =>
            tasks[i].requests = Alone(tasks[i].op, tasks[i].arg, tasks[i].result).requests
        /\ tasks[i].pc = "done" =>
            tasks[i].ret = Alone(tasks[i].op, tasks[i].arg, tasks[i].result).ret

\* A get_api that was sent and has returned while a list_keys, called on
\* the same client, holds its route with one of its query pairs inserted.
C23_Witness ==
    /\ tasks[1].pc = "compiled"
    /\ tasks[1].op = "list_keys"
    /\ tasks[1].inserted = 1
    /\ tasks[2].pc = "done"
    /\ tasks[2].op = "get_api"
    /\ ~tasks[2].ret.ok

\* ---------------------------------------------------------------------
\* The requests of the operations.

\* &name=value
Param(name, value) == <<"&">> \o Chars(name) \o <<"=">> \o value

\* The query string the text gives for the ListKeysRequest r.
ListKeysQuery(r) ==
    <<"?">> \o Chars("apiId") \o <<"=">> \o Chars(r.api_id)
        \o Param("limit", IF r.limit.some THEN UsizeToString(r.limit.v)
                           ELSE <<"1", "0", "0">>)
        \o (IF r.revalidate_cache.some
            THEN Param("revalidateKeysCache",
                       IF r.revalidate_cache.v THEN Chars("true") ELSE Chars("false"))
            ELSE <<>>)
        \o (IF r.owner_id.some THEN Param("ownerId", Chars(r.owner_id.v)) ELSE <<>>)
        \o (IF r.cursor.some THEN Param("cursor", Chars(r.cursor.v)) ELSE <<>>)

\* C24: list_keys sends a GET request whose query string holds, in this
\* order, apiId, limit (the limit of the request, or 100 when it has none),
\* and then revalidateKeysCache, ownerId and cursor, each if and only if
\* the request holds the field, and nothing else.
C24_ListKeysQueryOrder ==
    call.op = "list_keys" =>
        /\ Len(call.requests) = 1
        /\ call.requests[1].method = "GET"
        /\ call.requests[1].url = client.url \o ApisIdKeysUri \o ListKeysQuery(call.arg)

\* A list_keys for a request with every field set.
C24_Witness ==
    /\ call.op = "list_keys"
    /\ call.arg.limit = Some(42)
    /\ call.arg.revalidate_cache = Some(TRUE)
    /\ call.arg.owner_id = Some("jonxslays")
    /\ call.arg.cursor = Some("test_key")
    /\ call.requests[1].url = client.url \o ApisIdKeysUri \o <<"?">>
            \o Chars("apiId") \o <<"=">> \o Chars("test_123")
            \o Param("limit", <<"4", "2">>)
            \o Param("revalidateKeysCache", Chars("true"))
            \o Param("ownerId", Chars("jonxslays"))
            \o Param("cursor", Chars("test_key"))

\* The operations that hand no payload to fetch!.
NoPayloadOperations == {"get_key", "get_api", "list_keys"}

\* The payload of the operation op written as JSON, as the text gives it.
PayloadText(op, r) ==
    CASE op = "create_key" -> "{\"apiId\":\"" \o r.api_id \o "\"}"
      [] op = "verify_key" ->
            "{\"key\":\"" \o r.key \o "\",\"apiId\":\"" \o r.api_id \o "\"}"
      [] op = "revoke_key" -> "{\"keyId\":\"" \o r.key_id \o "\"}"
      [] op = "update_key" ->
            IF r = UpdateKeyRequestNew(r.key_id)
            THEN "{\"keyId\":\"" \o r.key_id \o "\"}"
            ELSE "{\"keyId\":\"" \o r.key_id \o "\",\"name\":null,\"remaining\":420}"
      [] op = "update_remaining" ->
            "{\"keyId\":\"" \o r.key_id \o "\",\"value\":42,\"op\":\"" \o r.op \o "\"}"

\* C25: a request holds a JSON body if and only if the operation handed a
\* payload to fetch!: get_key, get_api and list_keys send no body;
\* create_key, verify_key, revoke_key, update_key and update_remaining send
\* their request written as JSON.
C25_BodyIffPayload ==
    call.op \in Operations =>
        \A i \in 1..Len(call.requests) :
            IF call.op \in NoPayloadOperations
            THEN call.requests[i].body = None
            ELSE call.requests[i].body = Some(PayloadText(call.op, call.arg))

\* An update_key of a request with two fields set, sent with its body.
C25_Witness ==
    /\ call.op = "update_key"
    /\ call.arg.remaining = Value(420)
    /\ call.requests[1].body = Some("{\"keyId\":\"test_123\",\"name\":null,\"remaining\":420}")

\* C26, as the text has it: when the route of an operation holds a
\* placeholder, the url of the request sent holds no placeholder token;
\* stated for get_api and list_keys, whose routes routes.rs holds.
C26_NoPlaceholderSent ==
    (/\ call.op \in {"get_api", "list_keys"}
     /\ Contains(RouteOf(call.op).uri, Placeholder)) =>
        \A i \in 1..Len(call.requests) : ~Contains(call.requests[i].url, Placeholder)

\* ---------------------------------------------------------------------
\* The route compiler: what its calls leave alone.

\* C27: uri_insert leaves the query parameters and the method of the
\* compiled route as they are; query_insert leaves the path and the method
\* as they are and appends one pair to the query parameters; build_query
\* changes no compiled route, and what it returned is the query string of
\* the route as it stands, so that a second call returns the same string.
C27_MutatorFrames ==
    [][/\ \A b \in DOMAIN compiled :
            (ret'.kind = "self" /\ ret'.binding = b) =>
                /\ compiled'[b].method = compiled[b].method
                /\ uriLog'[b] # uriLog[b] => compiled'[b].params = compiled[b].params
                /\ queryLog'[b] # queryLog[b] =>
                    /\ compiled'[b].uri = compiled[b].uri
                    /\ compiled'[b].params =
                            Append(compiled[b].params, queryLog'[b][Len(queryLog'[b])])
       /\ ret'.kind = "query" =>
            /\ compiled' = compiled
            /\ ret'.value = BuildQueryRoute(compiled'[ret'.binding])
            /\ ret'.value = BuildQueryRoute(compiled[ret'.binding])
      ]_vars

\* A compiled route that took a path value and a query pair, its query
\* string built.
C27_Witness ==
    /\ ret.kind = "query"
    /\ Len(uriLog[ret.binding]) >= 1
    /\ Len(queryLog[ret.binding]) >= 1
    /\ compiled[ret.binding].uri # route.uri
    /\ Len(compiled[ret.binding].params) = Len(queryLog[ret.binding])
    /\ Len(ret.value) > 0

\* ---------------------------------------------------------------------
\* The key of the client.

\* C28: a set_key with a key that is no header value returns and leaves the
\* client as it was, its base url and all its headers; the requests sent
\* later hold the headers of the client, so the Authorization header that
\* was in force before the call.
C28_InvalidKeyNoChange ==
    [][/\ (call'.op = "set_key" /\ ~HeaderValueFromStr(call'.arg).ok) =>
            /\ client' = client
            /\ cproc' = "running"
       /\ call'.op \in Operations =>
            /\ client' = client
            /\ \A i \in 1..Len(call'.requests) :
                call'.requests[i].headers = client.headers
      ]_vars

\* A request sent after a set_key with a key that holds a line feed, with
\* the Authorization header of the constructor.
C28_Witness ==
    /\ call.op \in Operations
    /\ rootKey = KeyBroken
    /\ nCalls.sets = 1
    /\ call.requests[1].headers.Authorization = Bearer \o KeyGhj

\* C29: parse_empty_response gives no success for a text that holds the
\* substring error: whether the text reads as Wrapped<()> or not, the
\* result is an Err with an HttpError, so Ok(()) is returned only for texts
\* without that substring.
C29_NoSuccessWithError ==
    (parsed.call = "parse_empty_response" /\ HasText /\ Contains(BodyText, Chars("error")))
        => /\ ~parsed.ret.ok
           /\ parsed.ret.err.code \in {VariantOf(c) : c \in KnownCodeWords} \cup {"Unknown"}
           /\ parsed.ret.err.message \in STRING

\* C29 witness: parse_empty_response on the text server error, which does
\* not read as Wrapped<()>, gave an Err.
C29_Witness ==
    /\ parsed.call = "parse_empty_response"
    /\ resp = HttpResultOk(Text(Chars("server error")))
    /\ ~parsed.ret.ok
    /\ parsed.ret.err.code = "Unknown"

\* C30: CreateKeyRequest::set_expires(ms) stores Value(now + ms), now the
\* clock's reading in milliseconds at the call, for every ms of usize: the
\* exact sum, without truncation of now, without wrapping and without a
\* panic.
C30_ExactSum ==
    /\ proc # "panicked"
    /\ (req.kind = "create" /\ lastSet["expires"].n > 0)
            => req.expires = Value(lastSet["expires"].arg.now + lastSet["expires"].arg.expires)

====
